---- MODULE Spec2Model ----
(***************************************************************************)
(* Verification model of the contractextract analysis core:                 *)
(*   - the rule-condition evaluator (evaluate_rulepack_rules),              *)
(*   - the risk aggregator (calculate_risk_level),                          *)
(*   - the citation mapper (PageLineMapper),                                *)
(*   - the report pipeline (make_report / build_report_v2_from_v1),         *)
(*   - the document classifier (classify_document).                        *)
(* Each component has its own specification over the shared variables.      *)
(***************************************************************************)
EXTENDS Integers, Sequences, FiniteSets, TLC

VARIABLES
    \* evaluate_rulepack_rules
    rulepack, key_terms, context, results, rule_idx, pc,
    \* calculate_risk_level, build_risk_assessment
    compliance_checks, rulepack_rules, risk_level, risk_assessment, risk_pc,
    \* PageLineMapper
    text, page_boundaries, line_boundaries, located, cit_in, cit_out,
    \* make_report
    doc, rp_pc, findings, phase2_citations, report_v1, report_v2,
    \* classify_document
    cls_text, cls_packs, cls_settings, cls_answer, cls_llm_calls, cls_scored,
    cls_result, cls_pc,
    \* rule_packs table, last lifecycle call, open database sessions
    rule_packs, pack_call, sessions

evalVars == <<rulepack, key_terms, context, results, rule_idx, pc>>
riskVars == <<compliance_checks, rulepack_rules, risk_level, risk_assessment,
             risk_pc>>
mapVars  == <<text, page_boundaries, line_boundaries, located, cit_in, cit_out>>
repVars  == <<doc, rp_pc, findings, phase2_citations, report_v1, report_v2>>
clsVars  == <<cls_text, cls_packs, cls_settings, cls_answer, cls_llm_calls,
             cls_scored, cls_result, cls_pc>>
packVars == <<rule_packs, pack_call, sessions>>
vars     == <<evalVars, riskVars, mapVars, repVars, clsVars, packVars>>

(***************************************************************************)
(* Bounds                                                                   *)
(***************************************************************************)
MaxRules == 2
MaxChecks == 2
MaxRuleResults == 2
MaxTextLen == 3
MaxOffsetBeyond == 1

(***************************************************************************)
(* Python values of the fact context.  Strings are sequences of             *)
(* one-character strings so that len, lower, containment and ordering are   *)
(* computed; a list holds strings.                                          *)
(***************************************************************************)
NoneS == "None"

VNone    == [t |-> "NoneType", n |-> 0, s |-> <<>>, l |-> <<>>]
VInt(i)  == [t |-> "int",  n |-> i, s |-> <<>>, l |-> <<>>]
VBool(b) == [t |-> "bool", n |-> IF b THEN 1 ELSE 0, s |-> <<>>, l |-> <<>>]
VStr(cs) == [t |-> "str",  n |-> 0, s |-> cs, l |-> <<>>]
VList(xs) == [t |-> "list", n |-> 0, s |-> <<>>, l |-> xs]
VObj     == [t |-> "type", n |-> 0, s |-> <<>>, l |-> <<>>]

IsNum(v) == v.t \in {"int", "bool"}

\* bool(x): Python truthiness
Truthy(v) ==
    CASE v.t = "NoneType" -> FALSE
      [] v.t \in {"int", "bool"} -> v.n # 0
      [] v.t = "str" -> Len(v.s) > 0
      [] v.t = "list" -> Len(v.l) > 0
      [] OTHER -> TRUE

AsciiOrder ==
    << " ", "'", ",", "0", "1", "2", "3", "4", "5", "6", "7", "8", "9",
       "A", "B", "C", "D", "E", "F", "G", "H", "I", "J", "K", "L", "M",
       "N", "O", "P", "Q", "R", "S", "T", "U", "V", "W", "X", "Y", "Z",
       "[", "]",
       "a", "b", "c", "d", "e", "f", "g", "h", "i", "j", "k", "l", "m",
       "n", "o", "p", "q", "r", "s", "t", "u", "v", "w", "x", "y", "z" >>

CharCode(c) == CHOOSE k \in 1..Len(AsciiOrder) : AsciiOrder[k] = c

\* str.lower() on one character
LowerChar(c) ==
    LET k == CharCode(c) IN
    IF k >= CharCode("A") /\ k <= CharCode("Z")
    THEN AsciiOrder[k - CharCode("A") + CharCode("a")]
    ELSE c

StrLower(cs) == [k \in 1..Len(cs) |-> LowerChar(cs[k])]

\* needle in haystack, for str
IsSubstring(needle, hay) ==
    \E k \in 0..(Len(hay) - Len(needle)) :
        \A j \in 1..Len(needle) : hay[k + j] = needle[j]

\* lexicographic a < b on strings
RECURSIVE StrLess(_, _)
StrLess(a, b) ==
    IF Len(b) = 0 THEN FALSE
    ELSE IF Len(a) = 0 THEN TRUE
    ELSE IF Head(a) # Head(b) THEN CharCode(Head(a)) < CharCode(Head(b))
    ELSE StrLess(Tail(a), Tail(b))

\* lexicographic a < b on lists of strings
RECURSIVE ListLess(_, _)
ListLess(a, b) ==
    IF Len(b) = 0 THEN FALSE
    ELSE IF Len(a) = 0 THEN TRUE
    ELSE IF Head(a) # Head(b) THEN StrLess(Head(a), Head(b))
    ELSE ListLess(Tail(a), Tail(b))

\* a == b in Python: numbers compare by value (True == 1), other types by
\* type and content; never raises
PyEq(a, b) ==
    IF IsNum(a) /\ IsNum(b) THEN a.n = b.n
    ELSE a.t = b.t /\ a.s = b.s /\ a.l = b.l /\ a.n = b.n

Digits == <<"0", "1", "2", "3", "4", "5", "6", "7", "8", "9">>

RECURSIVE NatToStr(_)
NatToStr(i) ==
    IF i < 10 THEN <<Digits[i + 1]>>
    ELSE Append(NatToStr(i \div 10), Digits[(i % 10) + 1])

IntToStr(i) == IF i < 0 THEN <<"-">> \o NatToStr(0 - i) ELSE NatToStr(i)

IsDigitStr(cs) ==
    Len(cs) > 0 /\ \A k \in 1..Len(cs) : \E d \in 1..10 : Digits[d] = cs[k]

RECURSIVE StrToNat(_)
StrToNat(cs) ==
    IF Len(cs) = 0 THEN 0
    ELSE 10 * StrToNat(SubSeq(cs, 1, Len(cs) - 1))
         + ((CHOOSE d \in 1..10 : Digits[d] = cs[Len(cs)]) - 1)

(***************************************************************************)
(* Rule conditions.  A condition is Python source text; Parse gives the     *)
(* expression tree that eval() compiles it to, or a SyntaxError.            *)
(***************************************************************************)
Name(id)            == [op |-> "name", id |-> id]
Const(v)            == [op |-> "const", v |-> v]
Compare(o, a, b)    == [op |-> "compare", o |-> o, a |-> a, b |-> b]
BoolOp(o, a, b)     == [op |-> "boolop", o |-> o, a |-> a, b |-> b]
UnaryNot(a)         == [op |-> "not", a |-> a]
BinOp(o, a, b)      == [op |-> "binop", o |-> o, a |-> a, b |-> b]
Call(f, args)       == [op |-> "call", f |-> f, args |-> args]
MethodCall(r, m, args) == [op |-> "method", r |-> r, m |-> m, args |-> args]
Attribute(r, m)     == [op |-> "attribute", r |-> r, m |-> m]
NamedExpr(id, a)    == [op |-> "namedexpr", id |-> id, a |-> a]
GeneratorThrow(exc) == [op |-> "throw", exc |-> exc]
SyntaxErr           == [op |-> "syntaxerror"]

COND_GT      == "amount > 1000"
COND_EQ      == "amount == 1000"
COND_NE      == "amount != 1000"
COND_LE      == "amount <= 1000"
COND_PARTIES == "len(parties) >= 2 and has_signature"
COND_UNKNOWN == "undeclared_term > 1"
COND_SYNTAX  == "amount >"
COND_LOWER   == "vendor.lower() == 'acme'"
COND_APPEND  == "parties.append('C')"
COND_WALRUS  == "(amount := 1500) > 1000"
COND_IN      == "'ACME' in vendor"
COND_PLUS    == "amount + 1 > 1000"
COND_LEN3    == "len(parties) >= 3"
COND_MIN     == "min(amount, 1000) >= 1000"
COND_CLASS   == "amount.__class__"
COND_EXIT    == "(_ for _ in ()).throw([k for k in [c for c in ().__class__.__base__.__subclasses__() if c.__name__ == 'BaseException'][0].__subclasses__() if k.__name__ == 'SystemExit'][0])"

Conditions ==
    << COND_GT, COND_EQ, COND_NE, COND_LE, COND_PARTIES, COND_UNKNOWN,
       COND_SYNTAX, COND_LOWER, COND_APPEND, COND_WALRUS, COND_IN,
       COND_PLUS, COND_LEN3, COND_MIN, COND_CLASS, COND_EXIT >>

Parse(c) ==
    CASE c = COND_GT -> Compare(">", Name("amount"), Const(VInt(1000)))
      [] c = COND_EQ -> Compare("==", Name("amount"), Const(VInt(1000)))
      [] c = COND_NE -> Compare("!=", Name("amount"), Const(VInt(1000)))
      [] c = COND_LE -> Compare("<=", Name("amount"), Const(VInt(1000)))
      [] c = COND_PARTIES ->
            BoolOp("and",
                   Compare(">=", Call("len", <<Name("parties")>>), Const(VInt(2))),
                   Name("has_signature"))
      [] c = COND_UNKNOWN -> Compare(">", Name("undeclared_term"), Const(VInt(1)))
      [] c = COND_LOWER ->
            Compare("==", MethodCall(Name("vendor"), "lower", <<>>),
                    Const(VStr(<<"a", "c", "m", "e">>)))
      [] c = COND_APPEND ->
            MethodCall(Name("parties"), "append", <<Const(VStr(<<"C">>))>>)
      [] c = COND_WALRUS ->
            Compare(">", NamedExpr("amount", Const(VInt(1500))), Const(VInt(1000)))
      [] c = COND_IN ->
            Compare("in", Const(VStr(<<"A", "C", "M", "E">>)), Name("vendor"))
      [] c = COND_PLUS ->
            Compare(">", BinOp("+", Name("amount"), Const(VInt(1))), Const(VInt(1000)))
      [] c = COND_LEN3 ->
            Compare(">=", Call("len", <<Name("parties")>>), Const(VInt(3)))
      [] c = COND_MIN ->
            Compare(">=", Call("min", <<Name("amount"), Const(VInt(1000))>>),
                    Const(VInt(1000)))
      [] c = COND_CLASS -> Attribute(Name("amount"), "__class__")
      [] c = COND_EXIT -> GeneratorThrow("SystemExit")
      [] OTHER -> SyntaxErr

\* the callables of safe_builtins (None/True/False are literals)
safe_builtins ==
    {"len", "str", "int", "float", "bool", "min", "max", "sum", "abs", "round"}

(***************************************************************************)
(* Outcome of evaluating an expression: a value, an exception derived from  *)
(* Exception, or one that is not (SystemExit); together with the context as *)
(* the evaluation left it.                                                  *)
(***************************************************************************)
Ok(v, ctx) == [k |-> "ok", v |-> v, etype |-> "", err |-> "", ctx |-> ctx]
Raise(etype, msg, ctx) ==
    [k |-> IF etype \in {"SystemExit", "KeyboardInterrupt", "GeneratorExit"}
           THEN "base" ELSE "exc",
     v |-> VNone, etype |-> etype, err |-> msg, ctx |-> ctx]

\* a < b with Python's type rules
OrderLess(a, b) ==
    CASE IsNum(a) /\ IsNum(b) -> a.n < b.n
      [] a.t = "str" /\ b.t = "str" -> StrLess(a.s, b.s)
      [] OTHER -> ListLess(a.l, b.l)

Orderable(a, b) ==
    \/ IsNum(a) /\ IsNum(b)
    \/ a.t = "str" /\ b.t = "str"
    \/ a.t = "list" /\ b.t = "list"

ApplyCompare(o, a, b, ctx) ==
    CASE o = "==" -> Ok(VBool(PyEq(a, b)), ctx)
      [] o = "!=" -> Ok(VBool(~PyEq(a, b)), ctx)
      [] o \in {"<", "<=", ">", ">="} ->
            IF ~Orderable(a, b)
            THEN Raise("TypeError",
                       "'" \o o \o "' not supported between instances of '"
                           \o a.t \o "' and '" \o b.t \o "'", ctx)
            ELSE Ok(VBool(CASE o = "<"  -> OrderLess(a, b)
                            [] o = "<=" -> ~OrderLess(b, a)
                            [] o = ">"  -> OrderLess(b, a)
                            [] OTHER    -> ~OrderLess(a, b)), ctx)
      [] OTHER -> \* "in" / "not in"
            LET neg == (o = "not in") IN
            CASE b.t = "str" ->
                    IF a.t # "str"
                    THEN Raise("TypeError",
                               "'in <string>' requires string as left operand, not "
                                   \o a.t, ctx)
                    ELSE Ok(VBool(IsSubstring(a.s, b.s) # neg), ctx)
              [] b.t = "list" ->
                    Ok(VBool((\E k \in 1..Len(b.l) : PyEq(a, VStr(b.l[k]))) # neg), ctx)
              [] OTHER ->
                    Raise("TypeError",
                          "argument of type '" \o b.t \o "' is not iterable", ctx)

ApplyBinOp(o, a, b, ctx) ==
    CASE IsNum(a) /\ IsNum(b) ->
            Ok(VInt(CASE o = "+" -> a.n + b.n
                      [] o = "-" -> a.n - b.n
                      [] OTHER   -> a.n * b.n), ctx)
      [] o = "+" /\ a.t = "str" /\ b.t = "str" -> Ok(VStr(a.s \o b.s), ctx)
      [] o = "+" /\ a.t = "list" /\ b.t = "list" -> Ok(VList(a.l \o b.l), ctx)
      [] OTHER ->
            Raise("TypeError",
                  "unsupported operand type(s) for " \o o \o ": '"
                      \o a.t \o "' and '" \o b.t \o "'", ctx)

RECURSIVE MinStr(_)
MinStr(xs) ==
    IF Len(xs) = 1 THEN xs[1]
    ELSE LET m == MinStr(Tail(xs)) IN IF StrLess(m, xs[1]) THEN m ELSE xs[1]

RECURSIVE MaxStr(_)
MaxStr(xs) ==
    IF Len(xs) = 1 THEN xs[1]
    ELSE LET m == MaxStr(Tail(xs)) IN IF StrLess(xs[1], m) THEN m ELSE xs[1]

\* the builtin f applied to already evaluated arguments
ApplyBuiltin(f, as, ctx) ==
    LET a == as[1] IN
    CASE Len(as) = 0 ->
            Raise("TypeError", f \o "() missing required argument", ctx)
      [] f = "len" ->
            CASE a.t = "str" -> Ok(VInt(Len(a.s)), ctx)
              [] a.t = "list" -> Ok(VInt(Len(a.l)), ctx)
              [] OTHER -> Raise("TypeError",
                                "object of type '" \o a.t \o "' has no len()", ctx)
      [] f = "bool" -> Ok(VBool(Truthy(a)), ctx)
      [] f \in {"abs", "round"} ->
            IF IsNum(a) THEN Ok(VInt(IF f = "abs" /\ a.n < 0 THEN 0 - a.n ELSE a.n), ctx)
            ELSE Raise("TypeError", "bad operand type for " \o f \o "(): '"
                                        \o a.t \o "'", ctx)
      [] f \in {"int", "float"} ->
            CASE IsNum(a) -> Ok(VInt(a.n), ctx)
              [] a.t = "str" ->
                    IF IsDigitStr(a.s) THEN Ok(VInt(StrToNat(a.s)), ctx)
                    ELSE Raise("ValueError", "invalid literal for " \o f \o "()", ctx)
              [] OTHER -> Raise("TypeError",
                                f \o "() argument must be a string or a real number, not '"
                                    \o a.t \o "'", ctx)
      [] f = "str" ->
            CASE a.t = "str" -> Ok(a, ctx)
              [] a.t = "int" -> Ok(VStr(IntToStr(a.n)), ctx)
              [] a.t = "bool" ->
                    Ok(VStr(IF a.n = 1 THEN <<"T", "r", "u", "e">>
                            ELSE <<"F", "a", "l", "s", "e">>), ctx)
              [] a.t = "NoneType" -> Ok(VStr(<<"N", "o", "n", "e">>), ctx)
              [] OTHER -> Ok(VStr(<<"[", "]">>), ctx)
      [] f = "sum" ->
            IF a.t # "list"
            THEN Raise("TypeError", "'" \o a.t \o "' object is not iterable", ctx)
            ELSE IF Len(a.l) = 0 THEN Ok(VInt(0), ctx)
            ELSE Raise("TypeError",
                       "unsupported operand type(s) for +: 'int' and 'str'", ctx)
      [] OTHER -> \* min / max
            IF Len(as) = 1
            THEN CASE a.t = "list" /\ Len(a.l) > 0 ->
                        Ok(VStr(IF f = "min" THEN MinStr(a.l) ELSE MaxStr(a.l)), ctx)
                   [] a.t = "list" ->
                        Raise("ValueError", f \o "() arg is an empty sequence", ctx)
                   [] OTHER ->
                        Raise("TypeError", "'" \o a.t \o "' object is not iterable", ctx)
            ELSE LET b == as[2] IN
                 IF ~Orderable(a, b)
                 THEN Raise("TypeError",
                            "'" \o (IF f = "min" THEN "<" ELSE ">")
                                \o "' not supported between instances of '"
                                \o b.t \o "' and '" \o a.t \o "'", ctx)
                 ELSE IF f = "min"
                      THEN Ok(IF OrderLess(b, a) THEN b ELSE a, ctx)
                      ELSE Ok(IF OrderLess(a, b) THEN b ELSE a, ctx)

(***************************************************************************)
(* eval(condition, {"__builtins__": safe_builtins}, context): operands are  *)
(* evaluated left to right, each in the context the previous one left.      *)
(***************************************************************************)
RECURSIVE Eval(_, _)
RECURSIVE EvalArgs(_, _)

\* evaluates the argument list; k = "ok" carries the values in vs
EvalArgs(args, ctx) ==
    IF Len(args) = 0
    THEN [k |-> "ok", vs |-> <<>>, out |-> Ok(VNone, ctx)]
    ELSE LET first == Eval(Head(args), ctx) IN
         IF first.k # "ok"
         THEN [k |-> first.k, vs |-> <<>>, out |-> first]
         ELSE LET rest == EvalArgs(Tail(args), first.ctx) IN
              [k |-> rest.k, vs |-> <<first.v>> \o rest.vs, out |-> rest.out]

Eval(e, ctx) ==
    CASE e.op = "syntaxerror" ->
            Raise("SyntaxError", "invalid syntax (<string>, line 1)", ctx)
      [] e.op = "const" -> Ok(e.v, ctx)
      [] e.op = "name" ->
            IF e.id \in DOMAIN ctx THEN Ok(ctx[e.id], ctx)
            ELSE Raise("NameError", "name '" \o e.id \o "' is not defined", ctx)
      [] e.op = "not" ->
            LET a == Eval(e.a, ctx) IN
            IF a.k # "ok" THEN a ELSE Ok(VBool(~Truthy(a.v)), a.ctx)
      [] e.op = "boolop" ->
            LET a == Eval(e.a, ctx) IN
            IF a.k # "ok" THEN a
            ELSE IF (e.o = "and") = Truthy(a.v) THEN Eval(e.b, a.ctx)
            ELSE a
      [] e.op \in {"compare", "binop"} ->
            LET a == Eval(e.a, ctx) IN
            IF a.k # "ok" THEN a
            ELSE LET b == Eval(e.b, a.ctx) IN
                 IF b.k # "ok" THEN b
                 ELSE IF e.op = "compare" THEN ApplyCompare(e.o, a.v, b.v, b.ctx)
                 ELSE ApplyBinOp(e.o, a.v, b.v, b.ctx)
      [] e.op = "call" ->
            IF e.f \in DOMAIN ctx
            THEN Raise("TypeError", "'" \o ctx[e.f].t \o "' object is not callable", ctx)
            ELSE IF e.f \notin safe_builtins
            THEN Raise("NameError", "name '" \o e.f \o "' is not defined", ctx)
            ELSE LET as == EvalArgs(e.args, ctx) IN
                 IF as.k # "ok" THEN as.out
                 ELSE ApplyBuiltin(e.f, as.vs, as.out.ctx)
      [] e.op = "namedexpr" ->
            \* STORE_NAME writes into the locals mapping, i.e. the context
            LET a == Eval(e.a, ctx) IN
            IF a.k # "ok" THEN a
            ELSE Ok(a.v, [n \in (DOMAIN a.ctx) \cup {e.id} |->
                             IF n = e.id THEN a.v ELSE a.ctx[n]])
      [] e.op = "attribute" ->
            LET r == Eval(e.r, ctx) IN
            IF r.k # "ok" THEN r
            ELSE IF e.m = "__class__" THEN Ok(VObj, r.ctx)
            ELSE Raise("AttributeError",
                       "'" \o r.v.t \o "' object has no attribute '" \o e.m \o "'", r.ctx)
      [] e.op = "method" ->
            LET r == Eval(e.r, ctx) IN
            IF r.k # "ok" THEN r
            ELSE LET as == EvalArgs(e.args, r.ctx) IN
                 IF as.k # "ok" THEN as.out
                 ELSE CASE e.m = "lower" /\ r.v.t = "str" /\ Len(as.vs) = 0 ->
                             Ok(VStr(StrLower(r.v.s)), as.out.ctx)
                        [] e.m = "append" /\ r.v.t = "list" /\ Len(as.vs) = 1 ->
                             \* list.append mutates the object the fact name refers to
                             IF e.r.op = "name" /\ as.vs[1].t = "str"
                             THEN Ok(VNone,
                                     [as.out.ctx EXCEPT
                                         ![e.r.id] = VList(Append(r.v.l, as.vs[1].s))])
                             ELSE Ok(VNone, as.out.ctx)
                        [] e.m \in {"lower", "append"}
                              /\ r.v.t = (IF e.m = "lower" THEN "str" ELSE "list") ->
                             Raise("TypeError",
                                   e.m \o "() takes a different number of arguments",
                                   as.out.ctx)
                        [] OTHER ->
                             Raise("AttributeError",
                                   "'" \o r.v.t \o "' object has no attribute '"
                                       \o e.m \o "'", as.out.ctx)
      [] OTHER -> \* "throw": generator.throw(SystemExit) reached through
                  \* ().__class__.__base__.__subclasses__()
            Raise(e.exc, "", ctx)

(***************************************************************************)
(* Rule packs                                                               *)
(***************************************************************************)
DeclaredTerms == {"amount", "parties", "has_signature", "vendor"}

STR_ACME == <<"A", "C", "M", "E">>

\* the key terms the extraction may deliver (a name may be absent)
TermValues(n) ==
    CASE n = "amount" -> {VInt(500), VInt(1500)}
      [] n = "parties" -> {VList(<< <<"A">>, <<"B">> >>)}
      [] n = "has_signature" -> {VBool(TRUE), VBool(FALSE)}
      [] n = "vendor" -> {VStr(STR_ACME)}
      [] OTHER -> {VInt(7)}

KeyTermNames == DeclaredTerms \cup {"undeclared_term"}

KeyTermSets ==
    UNION { { f \in [D -> UNION {TermValues(n) : n \in D}] :
                \A n \in D : f[n] \in TermValues(n) } :
            D \in (SUBSET KeyTermNames) }

\* the rule of the pack that carries condition number c
RuleDef(c) ==
    [id |-> "rule_" \o ToString(c),
     label |-> "Rule " \o ToString(c),
     category |-> "General",
     severity |-> IF c % 2 = 0 THEN "High" ELSE "Low",
     condition |-> Conditions[c],
     success_message |-> "ok " \o ToString(c),
     failure_message |-> "failed " \o ToString(c),
     risk_statement |-> IF c % 3 = 0 THEN NoneS ELSE "risk " \o ToString(c),
     recommendation |-> IF c % 3 = 1 THEN NoneS ELSE "fix " \o ToString(c)]

RECURSIVE SeqsUpTo(_, _)
SeqsUpTo(S, n) ==
    IF n = 0 THEN {<<>>}
    ELSE LET shorter == SeqsUpTo(S, n - 1) IN
         shorter \cup { Append(q, x) : q \in shorter, x \in S }

PyMax(a, b) == IF a >= b THEN a ELSE b
PyMin(a, b) == IF a <= b THEN a ELSE b

RulePacks ==
    { [rules |-> [k \in 1..Len(q) |-> RuleDef(q[k])],
       key_terms |-> DeclaredTerms] :
      q \in SeqsUpTo(1..Len(Conditions), MaxRules) }

(***************************************************************************)
(* evaluate_rulepack_rules                                                  *)
(***************************************************************************)
\* context[name] = key_terms.get(name) for every declared key term
BuildContext(rp, kt) ==
    [n \in rp.key_terms |-> IF n \in DOMAIN kt THEN kt[n] ELSE VNone]

WARN_RISK == "Rule evaluation failed - manual review required"
WARN_RECOMMENDATION == "Check rule condition syntax and key term availability"

\* EvaluateOne with the risk statement and recommendation attached to every
\* result instead of only to a failed one
EvaluateOne_RiskOnPass(rule, ctx) ==
    LET out == Eval(Parse(rule.condition), ctx)
        condition_met == Truthy(out.v)
    IN  CASE out.k = "ok" ->
                [raised |-> FALSE, ctx |-> out.ctx,
                 result |-> [rule_id |-> rule.id, label |-> rule.label,
                             category |-> rule.category,
                             status |-> IF condition_met THEN "PASS" ELSE "FAIL",
                             severity |-> rule.severity,
                             message |-> IF condition_met THEN rule.success_message
                                         ELSE rule.failure_message,
                             citations |-> <<>>,
                             risk_statement |-> rule.risk_statement,
                             recommendation |-> rule.recommendation]]
          [] out.k = "exc" ->
                [raised |-> FALSE, ctx |-> out.ctx,
                 result |-> [rule_id |-> rule.id, label |-> rule.label,
                             category |-> rule.category,
                             status |-> "WARN",
                             severity |-> "Medium",
                             message |-> "Rule evaluation error: " \o out.err,
                             citations |-> <<>>,
                             risk_statement |-> WARN_RISK,
                             recommendation |-> WARN_RECOMMENDATION]]
          [] OTHER ->
                [raised |-> TRUE, ctx |-> out.ctx, result |-> <<>>]

\* one iteration of the loop over the rules: the try block and its handler
EvaluateOne(rule, ctx) ==
    LET out == Eval(Parse(rule.condition), ctx)
        condition_met == Truthy(out.v)
    IN  CASE out.k = "ok" ->
                [raised |-> FALSE, ctx |-> out.ctx,
                 result |-> [rule_id |-> rule.id, label |-> rule.label,
                             category |-> rule.category,
                             status |-> IF condition_met THEN "PASS" ELSE "FAIL",
                             severity |-> rule.severity,
                             message |-> IF condition_met THEN rule.success_message
                                         ELSE rule.failure_message,
                             citations |-> <<>>,
                             risk_statement |-> IF ~condition_met
                                                THEN rule.risk_statement ELSE NoneS,
                             recommendation |-> IF ~condition_met
                                                THEN rule.recommendation ELSE NoneS]]
          [] out.k = "exc" ->
                [raised |-> FALSE, ctx |-> out.ctx,
                 result |-> [rule_id |-> rule.id, label |-> rule.label,
                             category |-> rule.category,
                             status |-> "WARN",
                             severity |-> "Medium",
                             message |-> "Rule evaluation error: " \o out.err,
                             citations |-> <<>>,
                             risk_statement |-> WARN_RISK,
                             recommendation |-> WARN_RECOMMENDATION]]
          [] OTHER -> \* not an Exception: `except Exception` lets it through
                [raised |-> TRUE, ctx |-> out.ctx, result |-> <<>>]

\* values of the variables of a component that a specification does not run
IdleEval ==
    /\ rulepack = [rules |-> <<>>, key_terms |-> {}]
    /\ key_terms = <<>>
    /\ context = <<>>
    /\ results = <<>>
    /\ rule_idx = 0
    /\ pc = "idle"

IdleRisk ==
    /\ compliance_checks = <<>>
    /\ rulepack_rules = <<>>
    /\ risk_level = ""
    /\ risk_assessment = <<>>
    /\ risk_pc = "idle"

IdleMap ==
    /\ text = <<>>
    /\ page_boundaries = <<>>
    /\ line_boundaries = <<>>
    /\ located = <<>>
    /\ cit_in = <<>>
    /\ cit_out = <<>>

IdleReport ==
    /\ doc = <<>>
    /\ rp_pc = "idle"
    /\ findings = <<>>
    /\ phase2_citations = <<>>
    /\ report_v1 = <<>>
    /\ report_v2 = <<>>

IdleClassify ==
    /\ cls_text = <<>>
    /\ cls_packs = <<>>
    /\ cls_settings = <<>>
    /\ cls_answer = <<>>
    /\ cls_llm_calls = 0
    /\ cls_scored = <<>>
    /\ cls_result = <<>>
    /\ cls_pc = "idle"

IdlePacks ==
    /\ rule_packs = <<>>
    /\ pack_call = <<>>
    /\ sessions = <<>>

\* the call evaluate_rulepack_rules(rulepack, key_terms) has been made
Init ==
    /\ rulepack \in RulePacks
    /\ key_terms \in KeyTermSets
    /\ context = <<>>
    /\ results = <<>>
    /\ rule_idx = 0
    /\ pc = "start"
    /\ IdleRisk /\ IdleMap /\ IdleReport /\ IdleClassify /\ IdlePacks

\* results = [], context pre-populated from the declared key terms
PrepareContext ==
    /\ pc = "start"
    /\ context' = BuildContext(rulepack, key_terms)
    /\ rule_idx' = 1
    /\ pc' = "loop"
    /\ UNCHANGED <<rulepack, key_terms, results, riskVars, mapVars, repVars, clsVars, packVars>>

\* for rule in rules: one iteration
EvaluateRule ==
    /\ pc = "loop"
    /\ rule_idx <= Len(rulepack.rules)
    /\ LET step == EvaluateOne(rulepack.rules[rule_idx], context) IN
         /\ context' = step.ctx
         /\ IF step.raised
            THEN /\ pc' = "raised"
                 /\ UNCHANGED <<results, rule_idx>>
            ELSE /\ results' = Append(results, step.result)
                 /\ rule_idx' = rule_idx + 1
                 /\ pc' = pc
    /\ UNCHANGED <<rulepack, key_terms, riskVars, mapVars, repVars, clsVars, packVars>>

\* return results
ReturnResults ==
    /\ pc = "loop"
    /\ rule_idx > Len(rulepack.rules)
    /\ pc' = "done"
    /\ UNCHANGED <<rulepack, key_terms, context, results, rule_idx,
                   riskVars, mapVars, repVars, clsVars, packVars>>

Next == PrepareContext \/ EvaluateRule \/ ReturnResults

Spec == Init /\ [][Next]_vars

(***************************************************************************)
(* Properties of evaluate_rulepack_rules                                    *)
(***************************************************************************)
\* an expression that uses something outside the closed set of safe
\* operations: attribute access, a method call, an assignment expression
RECURSIVE OutsideSafeSet(_)
OutsideSafeSet(e) ==
    CASE e.op \in {"method", "attribute", "namedexpr", "throw"} -> TRUE
      [] e.op \in {"compare", "boolop", "binop"} ->
            OutsideSafeSet(e.a) \/ OutsideSafeSet(e.b)
      [] e.op = "not" -> OutsideSafeSet(e.a)
      [] e.op = "call" -> \E k \in 1..Len(e.args) : OutsideSafeSet(e.args[k])
      [] OTHER -> FALSE

EvaluatedRule == pc = "loop" /\ Len(results') = Len(results) + 1

\* C1: evaluate_rulepack_rules never raises because of a rule's condition;
\* it returns exactly one result per rule in declaration order, and a rule
\* whose condition fails to evaluate gets WARN with the generic
\* 'manual review required' risk statement.
C1_NeverRaises ==
    /\ pc # "raised"
    /\ pc = "done" =>
          /\ Len(results) = Len(rulepack.rules)
          /\ \A k \in 1..Len(results) :
                /\ results[k].rule_id = rulepack.rules[k].id
                /\ results[k].status \in {"PASS", "FAIL", "WARN"}
                /\ results[k].status = "WARN" =>
                      results[k].risk_statement = WARN_RISK

\* C2: a condition that uses anything outside the closed set of safe
\* operations (attribute access, a method call on a fact value) never gets
\* a PASS or FAIL verdict: it yields WARN.
C2_UnsafeConditionYieldsWarn ==
    \A k \in 1..Len(results) :
        OutsideSafeSet(Parse(rulepack.rules[k].condition)) =>
            results[k].status = "WARN"

\* C3: evaluating a rule leaves the fact context as it was, so each rule's
\* result is the one it has on the freshly populated context, whatever
\* rules were evaluated before it.
C3_ContextUnchanged ==
    pc \in {"loop", "done", "raised"} =>
        /\ context = BuildContext(rulepack, key_terms)
        /\ \A k \in 1..Len(results) :
              results[k] =
                  EvaluateOne(rulepack.rules[k],
                              BuildContext(rulepack, key_terms)).result

\* C4: when the condition evaluates without error the status is PASS exactly
\* when the condition is true and FAIL exactly when it is false; PASS carries
\* the success message and neither risk statement nor recommendation, FAIL
\* carries the failure message with the rule's risk statement and
\* recommendation; 'len(parties) >= 2 and has_signature' over
\* {parties: [A, B], has_signature: true} is PASS.
C4_PassFailOnSuccess ==
    [][ EvaluatedRule =>
          LET rule == rulepack.rules[rule_idx]
              out == Eval(Parse(rule.condition), context)
              r == results'[Len(results')]
          IN  /\ (out.k = "ok" /\ Truthy(out.v)) =>
                    /\ r.status = "PASS"
                    /\ r.message = rule.success_message
                    /\ r.risk_statement = NoneS
                    /\ r.recommendation = NoneS
              /\ (out.k = "ok" /\ ~Truthy(out.v)) =>
                    /\ r.status = "FAIL"
                    /\ r.message = rule.failure_message
                    /\ r.risk_statement = rule.risk_statement
                    /\ r.recommendation = rule.recommendation
              /\ ( /\ rule.condition = COND_PARTIES
                   /\ context["parties"] = VList(<< <<"A">>, <<"B">> >>)
                   /\ context["has_signature"] = VBool(TRUE) ) =>
                    r.status = "PASS"
      ]_vars

\* the example rule passed and a rule with a risk statement failed
C4_Witness ==
    /\ pc = "done"
    /\ Len(results) = 2
    /\ rulepack.rules[1].condition = COND_PARTIES
    /\ results[1].status = "PASS"
    /\ results[1].risk_statement = NoneS
    /\ results[2].status = "FAIL"
    /\ results[2].risk_statement # NoneS
    /\ results[2].recommendation # NoneS

AmountComparisons == {COND_GT, COND_EQ, COND_NE, COND_LE}

\* C5: a comparison whose operand is a declared but unextracted (null) fact
\* yields WARN for every comparison operator, equality included;
\* 'amount > 1000' is PASS for 1500 and FAIL for 500.
C5_NullComparisonWarns ==
    [][ EvaluatedRule =>
          LET rule == rulepack.rules[rule_idx]
              r == results'[Len(results')]
          IN  /\ (rule.condition \in AmountComparisons
                    /\ context["amount"] = VNone) => r.status = "WARN"
              /\ (rule.condition = COND_GT /\ context["amount"] = VInt(1500)) =>
                    r.status = "PASS"
              /\ (rule.condition = COND_GT /\ context["amount"] = VInt(500)) =>
                    r.status = "FAIL"
      ]_vars

(***************************************************************************)
(* calculate_risk_level                                                     *)
(***************************************************************************)
\* str.lower() on the severity strings that occur
SeverityLower(sev) ==
    CASE sev \in {"Critical", "CRITICAL", "critical"} -> "critical"
      [] sev \in {"High", "HIGH", "high"} -> "high"
      [] sev \in {"Medium", "medium"} -> "medium"
      [] sev \in {"Low", "low"} -> "low"
      [] OTHER -> sev

\* ComplianceCheckResult values a caller may pass
MkCheck(st, sev) ==
    [check_id |-> "check_" \o sev, label |-> "Check " \o sev,
     status |-> st, severity |-> sev,
     message |-> "check " \o st \o ".", citations |-> <<>>,
     reason_short |-> IF sev = "High" THEN "short reason" ELSE NoneS,
     reason_detailed |-> NoneS]

CheckResults ==
    { MkCheck("FAIL", "High"), MkCheck("FAIL", "Medium"), MkCheck("FAIL", "Low"),
      MkCheck("PASS", "High"), MkCheck("WARN", "Critical"), MkCheck("FAIL", "critical") }

\* RulepackRuleResult values a caller may pass
MkRuleResult(st, sev) ==
    [rule_id |-> "rule_" \o sev, label |-> "Rule " \o sev, category |-> "General",
     status |-> st, severity |-> sev,
     message |-> "rule " \o st, citations |-> <<>>,
     risk_statement |-> IF st = "FAIL" /\ sev # "Low" THEN "risk " \o sev ELSE NoneS,
     recommendation |-> IF st = "FAIL" /\ sev = "Medium" THEN "fix " \o sev ELSE NoneS]

RuleResults ==
    { MkRuleResult("FAIL", "Critical"), MkRuleResult("FAIL", "HIGH"),
      MkRuleResult("FAIL", "Medium"), MkRuleResult("FAIL", "Low"),
      MkRuleResult("PASS", "Critical"), MkRuleResult("WARN", "High"),
      MkRuleResult("INFO", "Critical"), MkRuleResult("PASS", "Low") }

\* [r for r in all_results if r.status == "FAIL"]
RECURSIVE Failed(_)
Failed(rs) ==
    IF Len(rs) = 0 THEN <<>>
    ELSE IF Head(rs).status = "FAIL" THEN <<Head(rs)>> \o Failed(Tail(rs))
    ELSE Failed(Tail(rs))

\* calculate_risk_level with the count-based fallback dropped: Medium for
\* any number of lesser failures
calculate_risk_level_NoCount(checks, rules) ==
    LET failed == Failed(checks \o rules) IN
    IF Len(failed) = 0 THEN "Low"
    ELSE IF \E k \in 1..Len(failed) : SeverityLower(failed[k].severity) = "critical"
    THEN "Critical"
    ELSE IF \E k \in 1..Len(failed) : SeverityLower(failed[k].severity) = "high"
    THEN "High"
    ELSE "Medium"

calculate_risk_level(checks, rules) ==
    LET all_results == checks \o rules
        failed == Failed(all_results)
        fail_count == Len(failed)
    IN  IF fail_count = 0 THEN "Low"
        ELSE IF \E k \in 1..Len(failed) : SeverityLower(failed[k].severity) = "critical"
        THEN "Critical"
        ELSE IF \E k \in 1..Len(failed) : SeverityLower(failed[k].severity) = "high"
        THEN "High"
        ELSE IF fail_count = 1 THEN "Medium"
        ELSE IF fail_count = 2 THEN "Medium"
        ELSE "High"

\* a caller holds the two result lists
InitRisk ==
    /\ compliance_checks \in SeqsUpTo(CheckResults, MaxChecks)
    /\ rulepack_rules \in SeqsUpTo(RuleResults, MaxRuleResults)
    /\ risk_level = ""
    /\ risk_assessment = <<>>
    /\ risk_pc = "start"
    /\ IdleEval /\ IdleMap /\ IdleReport /\ IdleClassify /\ IdlePacks

CalculateRisk ==
    /\ risk_pc = "start"
    /\ risk_level' = calculate_risk_level(compliance_checks, rulepack_rules)
    /\ risk_pc' = "done"
    /\ UNCHANGED <<compliance_checks, rulepack_rules, risk_assessment>>
    /\ UNCHANGED <<evalVars, mapVars, repVars, clsVars, packVars>>

NextRisk == CalculateRisk

SpecRisk == InitRisk /\ [][NextRisk]_vars

(***************************************************************************)
(* build_risk_assessment.  The result lists it is called on are drawn from  *)
(* a pool in which risk statements and recommendations repeat and more than *)
(* five differ.                                                             *)
(***************************************************************************)
MaxPoolLen == 8
TOP_N == 5
GENERIC_RECOMMENDATION ==
    "Review the failed checks above and consider renegotiating or seeking legal review."

PoolRule(id, st, sev, risk, rec) ==
    [rule_id |-> id, label |-> "Rule " \o id, category |-> "General",
     status |-> st, severity |-> sev, message |-> "rule " \o id \o " failed.",
     citations |-> <<>>, risk_statement |-> risk, recommendation |-> rec,
     reason_short |-> NoneS, reason_detailed |-> NoneS]

RulePool ==
    << PoolRule("r1", "FAIL", "Medium", "risk 1", "fix 1"),
       PoolRule("r2", "FAIL", "Medium", NoneS, "fix 2"),
       PoolRule("r3", "PASS", "High", "risk 3", "fix 3"),
       PoolRule("r4", "FAIL", "Low", "risk 1", "fix 1"),
       PoolRule("r5", "FAIL", "High", "risk 5", "fix 5"),
       PoolRule("r6", "FAIL", "Low", "risk 6", "fix 6"),
       PoolRule("r7", "FAIL", "Low", "risk 7", "fix 7"),
       PoolRule("r8", "FAIL", "Low", "risk 8", "fix 8"),
       PoolRule("r9", "FAIL", "Critical", "risk 9", NoneS),
       PoolRule("r10", "FAIL", "Low", "", "") >>

CheckPool ==
    << MkCheck("FAIL", "High"), MkCheck("FAIL", "Medium"), MkCheck("PASS", "High") >>

\* the elements of a list at the positions of a set, in the list's order
RECURSIVE Subsequence(_, _, _)
Subsequence(pool, keep, i) ==
    IF i > Len(pool) THEN <<>>
    ELSE (IF i \in keep THEN <<pool[i]>> ELSE <<>>) \o Subsequence(pool, keep, i + 1)

Subsequences(pool) == { Subsequence(pool, keep, 1) : keep \in SUBSET (1..Len(pool)) }

\* getattr(r, name, None)
GetAttr(r, name) == IF name \in DOMAIN r THEN r[name] ELSE NoneS

\* a string is truthy when it is neither None nor empty
Present(str) == str # NoneS /\ str # ""

\* str.rstrip('.')
RECURSIVE RStripDots(_)
RStripDots(str) ==
    IF Len(str) > 0 /\ SubSeq(str, Len(str), Len(str)) = "."
    THEN RStripDots(SubSeq(str, 1, Len(str) - 1))
    ELSE str

RiskString(r) ==
    IF Present(GetAttr(r, "risk_statement")) THEN r.risk_statement
    ELSE r.label \o ": " \o
         RStripDots(IF Present(GetAttr(r, "reason_short"))
                    THEN r.reason_short ELSE r.message)

RECURSIVE RiskStrings(_)
RiskStrings(failed) ==
    IF failed = <<>> THEN <<>>
    ELSE <<RiskString(Head(failed))>> \o RiskStrings(Tail(failed))

RECURSIVE RecStrings(_)
RecStrings(failed) ==
    IF failed = <<>> THEN <<>>
    ELSE (IF Present(GetAttr(Head(failed), "recommendation"))
          THEN <<Head(failed).recommendation>> ELSE <<>>)
         \o RecStrings(Tail(failed))

RECURSIVE DedupeStrings(_, _)
DedupeStrings(seq, i) ==
    IF i > Len(seq) THEN <<>>
    ELSE (IF \E j \in 1..(i - 1) : seq[j] = seq[i] THEN <<>> ELSE <<seq[i]>>)
         \o DedupeStrings(seq, i + 1)

\* a dedupe that drops a string only when it follows itself
dedupe_Adjacent(seq) ==
    SelectSeq([ i \in 1..Len(seq) |->
                  IF i > 1 /\ seq[i - 1] = seq[i] THEN NoneS ELSE seq[i] ],
              LAMBDA x : x # NoneS)

dedupe(seq) == DedupeStrings(seq, 1)

FirstN(seq, n) == SubSeq(seq, 1, PyMin(n, Len(seq)))

\* the ids the language model gave a recommendation for: none, or those of
\* the failed results it was shown
_generate_llm_recommendations(failed, llm_answers) ==
    IF llm_answers
    THEN { GetAttr(FirstN(failed, TOP_N)[k],
                   IF "check_id" \in DOMAIN FirstN(failed, TOP_N)[k]
                   THEN "check_id" ELSE "rule_id") : k \in 1..Len(FirstN(failed, TOP_N)) }
    ELSE {}

RiskAssessment(checks, rules, contract_text, llm_answers, failed) ==
    [overall_risk_level |-> calculate_risk_level(checks, rules),
     top_risks |-> FirstN(dedupe(RiskStrings(failed)), TOP_N),
     recommendations |->
         IF FirstN(dedupe(RecStrings(failed)), TOP_N) = <<>> /\ failed # <<>>
         THEN <<GENERIC_RECOMMENDATION>>
         ELSE FirstN(dedupe(RecStrings(failed)), TOP_N),
     recommendations_per_check |->
         IF contract_text # "" /\ failed # <<>>
         THEN _generate_llm_recommendations(failed, llm_answers) ELSE {},
     risk_calculation_method |-> "Hybrid"]

build_risk_assessment(checks, rules, contract_text, llm_answers) ==
    CHOOSE out \in { RiskAssessment(checks, rules, contract_text, llm_answers, failed) :
                     failed \in {Failed(checks \o rules)} } : TRUE

InitAssess ==
    /\ compliance_checks \in Subsequences(CheckPool)
    /\ rulepack_rules \in
           Subsequences(SubSeq(RulePool, 1, PyMin(MaxPoolLen, Len(RulePool))))
    /\ risk_level = ""
    /\ risk_assessment = <<>>
    /\ risk_pc = "start"
    /\ IdleEval /\ IdleMap /\ IdleReport /\ IdleClassify /\ IdlePacks

BuildRiskAssessment ==
    /\ risk_pc = "start"
    /\ \E contract_text \in {"", "text"}, llm_answers \in BOOLEAN :
           risk_assessment' = build_risk_assessment(compliance_checks, rulepack_rules,
                                                    contract_text, llm_answers)
    /\ risk_pc' = "done"
    /\ UNCHANGED <<compliance_checks, rulepack_rules, risk_level>>
    /\ UNCHANGED <<evalVars, mapVars, repVars, clsVars, packVars>>

NextAssess == BuildRiskAssessment

SpecAssess == InitAssess /\ [][NextAssess]_vars

\* the combined results with status FAIL, and those of a given severity
FailedSet ==
    { k \in 1..(Len(compliance_checks) + Len(rulepack_rules)) :
        (compliance_checks \o rulepack_rules)[k].status = "FAIL" }

FailedWith(sev) ==
    { k \in FailedSet :
        SeverityLower((compliance_checks \o rulepack_rules)[k].severity) = sev }

\* C6: calculate_risk_level is Low iff no result has status FAIL; otherwise
\* Critical if some failed result has severity Critical; otherwise High if
\* some failed result has severity High; otherwise Medium for 1 or 2 failed
\* results and High for 3 or more.
C6_RiskLevelPolicy ==
    risk_pc = "done" =>
        /\ (risk_level = "Low") <=> (FailedSet = {})
        /\ risk_level \in {"Low", "Medium", "High", "Critical"}
        /\ FailedSet # {} =>
              risk_level =
                  IF FailedWith("critical") # {} THEN "Critical"
                  ELSE IF FailedWith("high") # {} THEN "High"
                  ELSE IF Cardinality(FailedSet) <= 2 THEN "Medium"
                  ELSE "High"

\* three failures, none of them Critical or High, give High
C6_Witness ==
    /\ risk_pc = "done"
    /\ Cardinality(FailedSet) >= 3
    /\ FailedWith("critical") = {}
    /\ FailedWith("high") = {}
    /\ risk_level = "High"

AllResults == compliance_checks \o rulepack_rules

\* the failed result at which a string first occurs, by the string each
\* failed result contributes
FirstOccurrence(str, StringOf(_)) ==
    CHOOSE k \in FailedSet :
        /\ StringOf(AllResults[k]) = str
        /\ \A m \in FailedSet : StringOf(AllResults[m]) = str => k <= m

\* list holds the first TOP_N distinct strings of the failed results that
\* contribute one, in the order in which they first occur
FirstDistinct(list, Contributes(_), StringOf(_)) ==
    LET from == { k \in FailedSet : Contributes(AllResults[k]) } IN
    /\ Len(list) <= TOP_N
    /\ \A i, j \in DOMAIN list : i # j => list[i] # list[j]
    /\ \A i \in DOMAIN list : \E k \in from : StringOf(AllResults[k]) = list[i]
    /\ \A i, j \in DOMAIN list :
          i < j => FirstOccurrence(list[i], StringOf) < FirstOccurrence(list[j], StringOf)
    /\ \A k \in from :
          \/ \E i \in DOMAIN list : list[i] = StringOf(AllResults[k])
          \/ /\ Len(list) = TOP_N
             /\ \A i \in DOMAIN list :
                   FirstOccurrence(list[i], StringOf)
                       < FirstOccurrence(StringOf(AllResults[k]), StringOf)

HasRecommendation(r) == Present(GetAttr(r, "recommendation"))

\* C24: build_risk_assessment returns top_risks and recommendations of at
\* most 5 entries each, without duplicates, in order of first occurrence
\* among the failed results; a risk entry is the result's risk_statement
\* when it has one and otherwise "label: reason" (its short reason, or its
\* message when it has none, without trailing periods); a recommendation is
\* a result's pre-authored recommendation, or the one generic advice when
\* no failed result has any; overall_risk_level is calculate_risk_level of
\* the same results.
C24_RiskAssessmentLists ==
    risk_pc = "done" =>
        /\ FirstDistinct(risk_assessment.top_risks, LAMBDA r : TRUE, RiskString)
        /\ \/ FirstDistinct(risk_assessment.recommendations, HasRecommendation,
                             LAMBDA r : GetAttr(r, "recommendation"))
           \/ /\ FailedSet # {}
              /\ \A k \in FailedSet : ~HasRecommendation(AllResults[k])
              /\ risk_assessment.recommendations = <<GENERIC_RECOMMENDATION>>
        /\ risk_assessment.overall_risk_level
               = calculate_risk_level(compliance_checks, rulepack_rules)

\* more than five distinct risks and recommendations among the failed
\* results, some of them repeated, and a result without a risk statement
C24_Witness ==
    /\ risk_pc = "done"
    /\ Len(risk_assessment.top_risks) = TOP_N
    /\ Len(risk_assessment.recommendations) = TOP_N
    /\ Cardinality({ RiskString(AllResults[k]) : k \in FailedSet }) > TOP_N
    /\ Cardinality({ AllResults[k].recommendation :
                       k \in { m \in FailedSet : HasRecommendation(AllResults[m]) } })
          > TOP_N
    /\ Cardinality(FailedSet) > Cardinality({ RiskString(AllResults[k]) : k \in FailedSet })
    /\ \E k \in FailedSet : ~Present(GetAttr(AllResults[k], "risk_statement"))

(***************************************************************************)
(* PageLineMapper (document_analysis.py; citation_mapper.py is a copy)      *)
(***************************************************************************)
PAGE_BREAK == "\f"
NEWLINE == "\n"

\* Python's None where an int is expected
NoneInt == -1

\* Citation.confidence in hundredths: 1.0 and 0.5
CONF_FULL == 100
CONF_LOW == 50

\* str.split(sep) for a one-character separator
RECURSIVE Split(_, _)
Split(cs, sep) ==
    IF \A k \in 1..Len(cs) : cs[k] # sep THEN <<cs>>
    ELSE LET k == CHOOSE i \in 1..Len(cs) :
                     cs[i] = sep /\ \A j \in 1..(i - 1) : cs[j] # sep
         IN  <<SubSeq(cs, 1, k - 1)>> \o Split(SubSeq(cs, k + 1, Len(cs)), sep)

\* the loop of _calculate_page_boundaries from page i on
RECURSIVE PageLoop(_, _, _)
PageLoop(pages, i, char_pos) ==
    IF i > Len(pages) THEN <<>>
    ELSE LET start_char == char_pos
             end_char == char_pos + Len(pages[i])
         IN  << <<start_char, end_char>> >>
             \o PageLoop(pages, i + 1,
                         IF i < Len(pages) THEN end_char + 1 ELSE end_char)

_calculate_page_boundaries(txt) == PageLoop(Split(txt, PAGE_BREAK), 1, 0)

\* the inner loop of _calculate_line_boundaries from line j on
RECURSIVE LineLoop(_, _, _)
LineLoop(lines, j, page_char_pos) ==
    IF j > Len(lines) THEN <<>>
    ELSE LET start_char == page_char_pos
             end_char == page_char_pos + Len(lines[j])
         IN  << <<start_char, end_char>> >>
             \o LineLoop(lines, j + 1,
                         IF j < Len(lines) THEN end_char + 1 ELSE end_char)

\* the outer loop of _calculate_line_boundaries from page i on
RECURSIVE PageLinesLoop(_, _, _)
PageLinesLoop(pages, i, char_pos) ==
    IF i > Len(pages) THEN <<>>
    ELSE LET lb == LineLoop(Split(pages[i], NEWLINE), 1, char_pos)
             page_char_pos == lb[Len(lb)][2]
         IN  <<lb>> \o PageLinesLoop(pages, i + 1,
                                     IF i < Len(pages) THEN page_char_pos + 1
                                     ELSE page_char_pos)

_calculate_line_boundaries(txt) == PageLinesLoop(Split(txt, PAGE_BREAK), 1, 0)

\* first / last index of a sequence that satisfies a test, else NoneInt
FirstIndex(n, Test(_)) ==
    IF \E j \in 1..n : Test(j)
    THEN CHOOSE j \in 1..n : Test(j) /\ \A i \in 1..(j - 1) : ~Test(i)
    ELSE NoneInt

LastIndex(n, Test(_)) ==
    IF \E j \in 1..n : Test(j)
    THEN CHOOSE j \in 1..n : Test(j) /\ \A i \in (j + 1)..n : ~Test(i)
    ELSE NoneInt

\* char_to_page_line with half-open page ranges [start, end)
char_to_page_line_HalfOpen(pb, lb, char_start, char_end) ==
    LET InPage(i) == pb[i][1] <= char_start /\ char_start < pb[i][2]
        page_num == FirstIndex(Len(pb), InPage)
    IN  IF page_num = NoneInt THEN <<NoneInt, NoneInt, NoneInt>>
        ELSE IF page_num - 1 >= Len(lb) THEN <<page_num, NoneInt, NoneInt>>
        ELSE LET lines == lb[page_num]
                 HasStart(j) == lines[j][1] <= char_start /\ char_start <= lines[j][2]
                 HasEnd(j) == lines[j][1] <= char_end /\ char_end <= lines[j][2]
                 StartsBeforeEnd(j) == lines[j][1] <= char_end
                 line_start == FirstIndex(Len(lines), HasStart)
                 line_end == LastIndex(Len(lines), HasEnd)
             IN  <<page_num, line_start,
                   IF line_start # NoneInt /\ line_end = NoneInt
                   THEN LastIndex(Len(lines), StartsBeforeEnd)
                   ELSE line_end>>

\* char_to_page_line without the estimate of the end line
char_to_page_line_NoEstimate(pb, lb, char_start, char_end) ==
    LET InPage(i) == pb[i][1] <= char_start /\ char_start <= pb[i][2]
        page_num == FirstIndex(Len(pb), InPage)
    IN  IF page_num = NoneInt THEN <<NoneInt, NoneInt, NoneInt>>
        ELSE IF page_num - 1 >= Len(lb) THEN <<page_num, NoneInt, NoneInt>>
        ELSE LET lines == lb[page_num]
                 HasStart(j) == lines[j][1] <= char_start /\ char_start <= lines[j][2]
                 HasEnd(j) == lines[j][1] <= char_end /\ char_end <= lines[j][2]
             IN  <<page_num, FirstIndex(Len(lines), HasStart),
                   LastIndex(Len(lines), HasEnd)>>

\* char_to_page_line over the precomputed tables
char_to_page_line(pb, lb, char_start, char_end) ==
    LET InPage(i) == pb[i][1] <= char_start /\ char_start <= pb[i][2]
        page_num == FirstIndex(Len(pb), InPage)
    IN  IF page_num = NoneInt THEN <<NoneInt, NoneInt, NoneInt>>
        ELSE IF page_num - 1 >= Len(lb) THEN <<page_num, NoneInt, NoneInt>>
        ELSE LET lines == lb[page_num]
                 HasStart(j) == lines[j][1] <= char_start /\ char_start <= lines[j][2]
                 HasEnd(j) == lines[j][1] <= char_end /\ char_end <= lines[j][2]
                 StartsBeforeEnd(j) == lines[j][1] <= char_end
                 line_start == FirstIndex(Len(lines), HasStart)
                 line_end == LastIndex(Len(lines), HasEnd)
             IN  <<page_num, line_start,
                   IF line_start # NoneInt /\ line_end = NoneInt
                   THEN LastIndex(Len(lines), StartsBeforeEnd)
                   ELSE line_end>>

\* Citation(char_start, char_end, quote) with the defaults of the model class
Citation(char_start, char_end, quote) ==
    [char_start |-> char_start, char_end |-> char_end, quote |-> quote,
     page |-> NoneInt, line_start |-> NoneInt, line_end |-> NoneInt,
     confidence |-> CONF_FULL]

\* enhance_citation that keeps full confidence whatever was resolved
enhance_citation_AlwaysFull(pb, lb, citation) ==
    LET loc == char_to_page_line(pb, lb, citation.char_start, citation.char_end) IN
    [char_start |-> citation.char_start, char_end |-> citation.char_end,
     quote |-> citation.quote,
     page |-> loc[1], line_start |-> loc[2], line_end |-> loc[3],
     confidence |-> CONF_FULL]

\* enhance_citation that halves the confidence the citation came with
\* when the span does not resolve
enhance_citation_Decay(pb, lb, citation) ==
    LET loc == char_to_page_line(pb, lb, citation.char_start, citation.char_end) IN
    [char_start |-> citation.char_start, char_end |-> citation.char_end,
     quote |-> citation.quote,
     page |-> loc[1], line_start |-> loc[2], line_end |-> loc[3],
     confidence |-> IF loc[1] = NoneInt \/ loc[2] = NoneInt
                    THEN citation.confidence \div 2 ELSE CONF_FULL]

enhance_citation(pb, lb, citation) ==
    LET loc == char_to_page_line(pb, lb, citation.char_start, citation.char_end)
        page == loc[1]
        line_start == loc[2]
        line_end == loc[3]
        confidence == IF page = NoneInt \/ line_start = NoneInt
                      THEN CONF_LOW ELSE CONF_FULL
    IN  [char_start |-> citation.char_start, char_end |-> citation.char_end,
         quote |-> citation.quote,
         page |-> page, line_start |-> line_start, line_end |-> line_end,
         confidence |-> confidence]

TextAlphabet == {"a", NEWLINE, PAGE_BREAK}

Texts == SeqsUpTo(TextAlphabet, MaxTextLen)

Offsets(txt) == (0 - 1)..(Len(txt) + MaxOffsetBeyond)

\* PageLineMapper(text) has been constructed
InitMap ==
    /\ text \in Texts
    /\ page_boundaries = _calculate_page_boundaries(text)
    /\ line_boundaries = _calculate_line_boundaries(text)
    /\ located = <<>>
    /\ cit_in = <<>>
    /\ cit_out = <<>>
    /\ IdleEval /\ IdleRisk /\ IdleReport /\ IdleClassify /\ IdlePacks

\* mapper.char_to_page_line(s, e); located, cit_in and cit_out are the
\* arguments and the return value of the caller's most recent call
Locate ==
    \E s \in Offsets(text), e \in Offsets(text) :
        /\ located' = [char_start |-> s, char_end |-> e,
                       result |-> char_to_page_line(page_boundaries,
                                                    line_boundaries, s, e)]
        /\ cit_in' = <<>>
        /\ cit_out' = <<>>
        /\ UNCHANGED <<text, page_boundaries, line_boundaries,
                       evalVars, riskVars, repVars, clsVars, packVars>>

\* a caller builds a Citation object
NewCitation ==
    \E s \in Offsets(text), e \in Offsets(text), q \in {"quote one", "quote two"} :
        /\ cit_in' = Citation(s, e, q)
        /\ cit_out' = <<>>
        /\ located' = <<>>
        /\ UNCHANGED <<text, page_boundaries, line_boundaries,
                       evalVars, riskVars, repVars, clsVars, packVars>>

\* mapper.enhance_citation(citation)
Enhance ==
    /\ cit_in # <<>>
    /\ cit_out' = enhance_citation(page_boundaries, line_boundaries, cit_in)
    /\ UNCHANGED <<text, page_boundaries, line_boundaries, located, cit_in,
                   evalVars, riskVars, repVars, clsVars, packVars>>

\* mapper.enhance_citation(enhanced): the citation a previous call returned
\* is passed in again
Reenhance ==
    /\ cit_out # <<>>
    /\ cit_in' = cit_out
    /\ cit_out' = enhance_citation(page_boundaries, line_boundaries, cit_out)
    /\ UNCHANGED <<text, page_boundaries, line_boundaries, located,
                   evalVars, riskVars, repVars, clsVars, packVars>>

NextMap == Locate \/ NewCitation \/ Enhance \/ Reenhance

SpecMap == InitMap /\ [][NextMap]_vars

\* number of pages of a text: one more than its page breaks
NumPages(txt) == 1 + Cardinality({k \in 1..Len(txt) : txt[k] = PAGE_BREAK})

\* C7: for every span with 0 <= s <= e <= len(text), locate returns a page
\* number between 1 and the number of pages; it returns no page only when s
\* is outside the document bounds.
C7_PageAlwaysFound ==
    located # <<>> =>
        /\ (0 <= located.char_start /\ located.char_start <= located.char_end
              /\ located.char_end <= Len(text)) =>
                 (1 <= located.result[1] /\ located.result[1] <= NumPages(text))
        /\ located.result[1] = NoneInt =>
              (located.char_start < 0 \/ located.char_start > Len(text))

\* a span that starts on an empty second page, right at the end of the text
C7_Witness ==
    /\ located # <<>>
    /\ Len(text) >= 2
    /\ text[Len(text)] = PAGE_BREAK
    /\ located.char_start = Len(text)
    /\ located.char_end = Len(text)
    /\ located.result[1] = NumPages(text)

\* C8: a citation that references an offset beyond the document length
\* (char_start or char_end greater than len(text)) has confidence below 1.0
\* after enhance.
C8_OutOfBoundsLowConfidence ==
    (cit_out # <<>> /\ (cit_in.char_start > Len(text) \/ cit_in.char_end > Len(text)))
        => cit_out.confidence < CONF_FULL

\* C10: enhance returns a citation whose confidence is 1.0 exactly when both
\* page and line_start resolved and 0.5 otherwise, whose page, line_start and
\* line_end are what locate returns for its span, and whose char_start,
\* char_end and quote are those of the input; the input is not modified.
C10_EnhanceFrame ==
    [][ (cit_in # <<>> /\ cit_out' # <<>> /\ cit_out' # cit_out) =>
          LET loc == char_to_page_line(page_boundaries, line_boundaries,
                                       cit_in.char_start, cit_in.char_end)
          IN  /\ cit_in' = cit_in
              /\ cit_out'.char_start = cit_in.char_start
              /\ cit_out'.char_end = cit_in.char_end
              /\ cit_out'.quote = cit_in.quote
              /\ <<cit_out'.page, cit_out'.line_start, cit_out'.line_end>> = loc
              /\ cit_out'.confidence \in {CONF_FULL, CONF_LOW}
              /\ (cit_out'.confidence = CONF_FULL) <=>
                     (cit_out'.page # NoneInt /\ cit_out'.line_start # NoneInt)
      ]_vars

\* an enhanced citation whose page did not resolve, next to its input
C10_Witness ==
    /\ cit_out # <<>>
    /\ cit_out.page = NoneInt
    /\ cit_out.confidence = CONF_LOW
    /\ cit_out.quote = cit_in.quote
    /\ cit_in.confidence = CONF_FULL

\* C11: locate is idempotent on a built mapper: no locate or enhance call
\* changes the text or the precomputed page and line tables, a locate call
\* with the arguments of the previous one returns the same (page,
\* line_start, line_end), and enhancing an already enhanced citation yields
\* an identical citation.
C11_LocateIdempotent ==
    [][ /\ text' = text
        /\ page_boundaries' = page_boundaries
        /\ line_boundaries' = line_boundaries
        /\ (located # <<>> /\ located' # <<>>
              /\ located'.char_start = located.char_start
              /\ located'.char_end = located.char_end)
             => located'.result = located.result
        /\ (cit_out # <<>> /\ cit_out' # <<>> /\ cit_in' = cit_out)
             => cit_out' = cit_out
      ]_vars

\* an unresolved citation at half confidence that was enhanced a second time
\* on a two-page text, the tables being those of construction
C11_Witness ==
    /\ cit_out # <<>>
    /\ cit_in = cit_out
    /\ cit_out.page = NoneInt
    /\ cit_out.confidence = CONF_LOW
    /\ Len(page_boundaries) >= 2
    /\ page_boundaries = _calculate_page_boundaries(text)
    /\ line_boundaries = _calculate_line_boundaries(text)

\* the page and the line of an offset, counted on the text itself: a break
\* at the offset still belongs to the page and the line it ends
PageOf(txt, s) == 1 + Cardinality({k \in 1..s : txt[k] = PAGE_BREAK})

PageStart(txt, s) ==
    IF \E k \in 1..s : txt[k] = PAGE_BREAK
    THEN CHOOSE k \in 1..s :
             txt[k] = PAGE_BREAK /\ \A j \in (k + 1)..s : txt[j] # PAGE_BREAK
    ELSE 0

LineOf(txt, s) ==
    1 + Cardinality({k \in (PageStart(txt, s) + 1)..s : txt[k] = NEWLINE})

NumLines(txt, page) == Len(Split(Split(txt, PAGE_BREAK)[page], NEWLINE))

\* C30: for every span with 0 <= s <= e <= len(text), locate resolves
\* line_start and line_end with 1 <= line_start <= line_end <= the number of
\* lines of the returned page; line_start is the one line of that page that
\* contains s, and line_end is the page's last line when e lies on a later
\* page.
C30_LinesResolvedAndOrdered ==
    (/\ located # <<>>
     /\ 0 <= located.char_start
     /\ located.char_start <= located.char_end
     /\ located.char_end <= Len(text))
    => LET page == located.result[1]
           line_start == located.result[2]
           line_end == located.result[3]
           lines == line_boundaries[page]
       IN  /\ line_start # NoneInt
           /\ line_end # NoneInt
           /\ 1 <= line_start
           /\ line_start <= line_end
           /\ line_end <= NumLines(text, page)
           /\ {j \in 1..Len(lines) : lines[j][1] <= located.char_start
                                     /\ located.char_start <= lines[j][2]}
                = {line_start}
           /\ line_start = LineOf(text, located.char_start)
           /\ PageOf(text, located.char_end) > PageOf(text, located.char_start)
                => line_end = NumLines(text, page)

\* a span from the second line of the first page to the second page
C30_Witness ==
    /\ located # <<>>
    /\ located.char_start <= located.char_end
    /\ located.char_end <= Len(text)
    /\ located.result = <<1, 2, 2>>
    /\ PageOf(text, located.char_end) = 2

(***************************************************************************)
(* Report pipeline (make_report).  The document text is a sequence of       *)
(* lexemes, one offset each; every regular expression of the rule engine    *)
(* is computed on the lexemes it can match:                                 *)
(*   "a"  a plain word ("Texas")          "9"  the number 9                 *)
(*   "x"  "confidential"                  "$"  the currency sign            *)
(*   "f"  "fraud" (it ends in "aud")      "s"  "shares"                     *)
(*   "l"  "liability"                     "\n" a line break                 *)
(*   "g"  "jurisdiction"                  "\f" a page break                 *)
(* "m" ("12 months of fees"), "o" ("sole responsibility") and "p"           *)
(* ("premises") are the lexemes of the remaining expressions; "b" is the    *)
(* phrase "governed by the laws of", which none of the expressions matches. *)
(***************************************************************************)
MaxDocLen == 3

DocAlphabet == {"a", "x", "f", "l", "g", "9", "$", "s", NEWLINE, PAGE_BREAK}

DocTexts == SeqsUpTo(DocAlphabet, MaxDocLen)

\* txt[a:b] for non-negative a and b
PySlice(txt, a, b) == SubSeq(txt, PyMin(a, Len(txt)) + 1, PyMin(b, Len(txt)))

\* \s, \d and [A-Za-z] on a lexeme
IsSpace(t) == t \in {NEWLINE, PAGE_BREAK}
IsDigit(t) == t = "9"
IsLetters(t) == t \in {"a", "x", "f", "l", "g", "s", "m", "o", "p", "b"}

\* pattern.search(window) for the patterns that only test for presence
SIGNATURE_NOISE(ln) == \E i \in 1..Len(ln) : ln[i] = "x"
MONTHS_FEES_RE(section) == \E i \in 1..Len(section) : section[i] = "m"
OTHER_PARTY_HEURISTIC_RE(nearby) == \E i \in 1..Len(nearby) : nearby[i] = "o"
PROPERTY_RE(txt) == \E i \in 1..Len(txt) : txt[i] = "p"
_CURRENCY_HINT(w) == \E i \in 1..Len(w) : w[i] \in {"$", "f"}
_SHARE_UNIT(w) == \E i \in 1..Len(w) : w[i] = "s"
_NUMBERISH(w) == \E i \in 1..Len(w) : IsDigit(w[i])

\* str.splitlines(): line and page breaks both end a line, and a final
\* break opens no further line
RECURSIVE splitlines(_)
splitlines(cs) ==
    IF cs = <<>> THEN <<>>
    ELSE IF \A k \in 1..Len(cs) : ~IsSpace(cs[k]) THEN <<cs>>
    ELSE LET k == CHOOSE i \in 1..Len(cs) :
                     IsSpace(cs[i]) /\ \A j \in 1..(i - 1) : ~IsSpace(cs[j])
         IN  <<SubSeq(cs, 1, k - 1)>> \o splitlines(SubSeq(cs, k + 1, Len(cs)))

\* "\n".join(lines)
RECURSIVE JoinLines(_)
JoinLines(lines) ==
    IF lines = <<>> THEN <<>>
    ELSE IF Len(lines) = 1 THEN lines[1]
    ELSE lines[1] \o <<NEWLINE>> \o JoinLines(Tail(lines))

_strip_noise(txt) ==
    JoinLines(SelectSeq(splitlines(txt), LAMBDA ln : ~SIGNATURE_NOISE(ln)))

\* _norm_amount of a number lexeme
_norm_amount(t) == IF t = "9" THEN 9 ELSE 0

\* f"{amt:,.2f}"
FormatAmount(n) == ToString(n) \o ".00"

\* MONEY_RE.finditer from lexeme i on: an optional currency, an optional
\* white space, one number; (amt, cur, span) with a 0-based half-open span.
\* The currency alternative AUD matches the tail of "fraud".
RECURSIVE MoneyFrom(_, _)
MoneyFrom(txt, i) ==
    IF i > Len(txt) THEN <<>>
    ELSE LET DigitAt(k) == k <= Len(txt) /\ IsDigit(txt[k])
             SpaceAt(k) == k <= Len(txt) /\ IsSpace(txt[k])
             currency == txt[i] \in {"$", "f"}
             last == IF currency /\ SpaceAt(i + 1) /\ DigitAt(i + 2) THEN i + 2
                     ELSE IF currency /\ DigitAt(i + 1) THEN i + 1
                     ELSE IF SpaceAt(i) /\ DigitAt(i + 1) THEN i + 1
                     ELSE IF DigitAt(i) THEN i
                     ELSE 0
         IN  IF last = 0 THEN MoneyFrom(txt, i + 1)
             ELSE <<[amt |-> _norm_amount(txt[last]),
                     cur |-> IF currency THEN txt[i] ELSE "",
                     span |-> <<i - 1, last>>]>>
                  \o MoneyFrom(txt, last + 1)

parse_money(txt) == MoneyFrom(txt, 1)

\* max(vals, key=amt): the first of the largest; <<>> stands for None
MaxByAmount(vals) ==
    IF vals = <<>> THEN <<>>
    ELSE vals[CHOOSE k \in 1..Len(vals) :
                 /\ \A j \in 1..Len(vals) : vals[j].amt <= vals[k].amt
                 /\ \A j \in 1..(k - 1) : vals[j].amt < vals[k].amt]

max_money(txt) == MaxByAmount(parse_money(txt))

\* (start, end) around the first match of LIAB_SECTION_RE; <<>> for None
find_liability_section(txt) ==
    IF \A k \in 1..Len(txt) : txt[k] # "l" THEN <<>>
    ELSE LET k == CHOOSE i \in 1..Len(txt) :
                     txt[i] = "l" /\ \A j \in 1..(i - 1) : txt[j] # "l"
         IN  <<PyMax(0, (k - 1) - 600), PyMin(Len(txt), k + 1200)>>

window_quote(txt, span, pad) ==
    Citation(span[1], span[2],
             PySlice(txt, PyMax(0, span[1] - pad), PyMin(Len(txt), span[2] + pad)))

Finding(rule_id, passed, details, citations) ==
    [rule_id |-> rule_id, passed |-> passed, details |-> details,
     citations |-> citations, tags |-> <<>>]

\* Finding.details is the sequence of the phrases of the message
ExceedPhrases ==
    {"exceeds", "Found '12 months of fees' (~1x), exceeds configured multiplier."}
NotAllowedPhrases == {"Not in allowed list.", "One or more not in allowed list."}

\* a test of the first phrase only, as details.lower().startswith(needle)
Mentions_StartsWith(details, phrases) == details # <<>> /\ details[1] \in phrases

\* needle in details.lower(), for the needles "exceed" and "not in allowed list"
Mentions(details, phrases) == \E i \in 1..Len(details) : details[i] \in phrases

\* "; ".join(notes) where every note is a sequence of phrases
RECURSIVE JoinNotes(_)
JoinNotes(notes) ==
    IF notes = <<>> THEN <<>>
    ELSE IF Len(notes) = 1 THEN notes[1]
    ELSE notes[1] \o <<";">> \o JoinNotes(Tail(notes))

\* the indexes of a sequence that satisfy a test, in order
Indexes(n, Test(_)) == SelectSeq([k \in 1..n |-> k], Test)

(***************************************************************************)
(* Rule sets and rule packs                                                 *)
(***************************************************************************)
\* RuleSet(): the defaults of the configuration classes.  allowed_countries
\* is the set of lexemes that contain an allowed name: none contains one of
\* the default names
DefaultRuleSet ==
    [jurisdiction |-> [allowed_countries |-> {}],
     liability_cap |-> [max_cap_amount |-> NoneInt, max_cap_multiplier |-> 1],
     contract |-> [max_contract_value |-> NoneInt],
     fraud |-> [require_fraud_clause |-> TRUE,
                require_liability_on_other_party |-> TRUE]]

\* a limit below every amount; fraud liability need not be assigned
StrictRuleSet ==
    [DefaultRuleSet EXCEPT !.contract.max_contract_value = 5,
                           !.fraud.require_liability_on_other_party = FALSE]

\* a limit above every amount; "Texas" allowed
LooseRuleSet ==
    [DefaultRuleSet EXCEPT !.contract.max_contract_value = 50,
                           !.jurisdiction.allowed_countries = {"a"}]

\* pack_data: <<>> stands for None
NoPack == <<>>
LeasePack ==
    [id |-> "lease_agreement",
     rules_json |-> << [type |-> "lease.property",
                        params |-> [require_property_details |-> TRUE]],
                       [type |-> "lease.unknown",
                        params |-> [require_property_details |-> TRUE]] >>]

\* the calls make_report(document_name, text, rules, pack_data)
Documents ==
    { [text |-> t, rules |-> c[1], pack_data |-> c[2]] :
      t \in DocTexts,
      c \in { <<DefaultRuleSet, NoPack>>, <<StrictRuleSet, NoPack>>,
              <<LooseRuleSet, LeasePack>> } }

(***************************************************************************)
(* The four standard checks and the custom rules                            *)
(***************************************************************************)
check_liability_cap_present_and_within_bounds(txt, rules, contract_value_guess) ==
    LET rid == "liability_cap_present_and_within_bounds"
        sec_span == find_liability_section(txt)
    IN  IF sec_span = <<>>
        THEN Finding(rid, FALSE,
                     <<"No clear 'Limitation of Liability' section found.">>, <<>>)
        ELSE
        LET cit == window_quote(txt, sec_span, 140)
            section == PySlice(txt, sec_span[1], sec_span[2])
            policy == rules.liability_cap
            months == MONTHS_FEES_RE(section)
            low_mult == policy.max_cap_multiplier # NoneInt
                          /\ policy.max_cap_multiplier < 1
            money_in_section == parse_money(section)
            highest_cap == MaxByAmount(money_in_section)
            over_amount == /\ money_in_section # <<>>
                           /\ policy.max_cap_amount # NoneInt
                           /\ highest_cap.amt > policy.max_cap_amount
            over_mult == /\ money_in_section # <<>>
                         /\ contract_value_guess # NoneInt
                         /\ policy.max_cap_multiplier # NoneInt
                         /\ highest_cap.amt >
                              policy.max_cap_multiplier * contract_value_guess
            no_cap == money_in_section = <<>> /\ ~months
            cap_ok == ~(months /\ low_mult) /\ ~over_amount /\ ~over_mult /\ ~no_cap
            notes ==
                (IF months
                 THEN IF low_mult
                      THEN << <<"Found '12 months of fees' (~1x), exceeds configured multiplier.">> >>
                      ELSE << <<"Found '12 months of fees' (~1x multiplier).">> >>
                 ELSE <<>>)
                \o (IF money_in_section # <<>>
                    THEN << <<"Found explicit monetary cap candidate:",
                              highest_cap.cur, FormatAmount(highest_cap.amt)>> >>
                    ELSE <<>>)
                \o (IF over_amount
                    THEN << <<"Cap", FormatAmount(highest_cap.amt), "exceeds",
                              "allowed", FormatAmount(policy.max_cap_amount)>> >>
                    ELSE <<>>)
                \o (IF over_mult
                    THEN << <<"Cap", FormatAmount(highest_cap.amt), "exceeds",
                              "multiple of inferred contract value",
                              FormatAmount(contract_value_guess)>> >>
                    ELSE <<>>)
                \o (IF no_cap
                    THEN << <<"No clear cap indicator ('12 months of fees' or explicit monetary cap) detected.">> >>
                    ELSE <<>>)
        IN  Finding(rid, cap_ok,
                    IF notes # <<>> THEN JoinNotes(notes)
                    ELSE IF cap_ok THEN <<"Cap appears within configured bounds.">>
                    ELSE <<"Cap not within bounds.">>,
                    <<cit>>)

check_contract_value_within_limit(txt, rules) ==
    LET rid == "contract_value_within_limit"
        limit == rules.contract.max_contract_value
        mm == max_money(txt)
    IN  IF limit = NoneInt
        THEN Finding(rid, TRUE, <<"No max contract value configured; skipping.">>, <<>>)
        ELSE IF mm = <<>>
        THEN Finding(rid, TRUE,
                     <<"Could not identify a contract value; no obvious monetary amounts found.">>,
                     <<>>)
        ELSE LET passed == mm.amt <= limit IN
             Finding(rid, passed,
                     <<"Largest detected amount", mm.cur, FormatAmount(mm.amt),
                       IF passed THEN "is within" ELSE "exceeds",
                       "configured limit", FormatAmount(limit)>>,
                     <<window_quote(txt, mm.span, 140)>>)

check_fraud_clause_present_and_assigned(txt, rules) ==
    LET rid == "fraud_clause_present_and_assigned"
        IsFraud(k) == txt[k] = "f"
        matches == Indexes(Len(txt), IsFraud)
        nearby(k) == PySlice(txt, PyMax(0, (matches[k] - 1) - 300),
                             PyMin(Len(txt), matches[k] + 300))
        all_citations == [k \in 1..Len(matches) |->
                            Citation(matches[k] - 1, matches[k], nearby(k))]
        require == rules.fraud.require_liability_on_other_party
        assigned(k) == OTHER_PARTY_HEURISTIC_RE(nearby(k))
        all_assigned_ok == ~require \/ \A k \in 1..Len(matches) : assigned(k)
        assigned_count == Cardinality({k \in 1..Len(matches) : assigned(k)})
        note ==
            IF Len(matches) = 1
            THEN <<"'fraud' found (1 instance).">>
                 \o (IF ~require THEN <<>>
                     ELSE IF all_assigned_ok
                     THEN <<"Liability appears assigned to the other party.">>
                     ELSE <<"Could not confirm liability assigned to the 'other party' near the fraud reference.">>)
            ELSE <<"'fraud' found", ToString(Len(matches)), "instances.">>
                 \o (IF ~require THEN <<>>
                     ELSE IF all_assigned_ok
                     THEN <<"All instances appear to have liability assigned to the other party.">>
                     ELSE <<ToString(assigned_count), "of", ToString(Len(matches)),
                            "instances have liability properly assigned to the other party.">>)
    IN  IF ~rules.fraud.require_fraud_clause
        THEN Finding(rid, TRUE, <<"Fraud clause not required by config.">>, <<>>)
        ELSE IF matches = <<>>
        THEN Finding(rid, FALSE, <<"No 'fraud' mention found.">>, <<>>)
        ELSE Finding(rid, all_assigned_ok, note, all_citations)

\* str.strip() of a matched location: it starts with a word
RECURSIVE Strip(_)
Strip(cs) ==
    IF cs # <<>> /\ IsSpace(cs[Len(cs)]) THEN Strip(SubSeq(cs, 1, Len(cs) - 1))
    ELSE cs

\* GOV_LAW_RE.finditer from lexeme i on: the keyword, white space, then
\* group 2, the longest run of words and white space that starts with a
\* word; (span(2), group(2).strip())
RECURSIVE GovLawFrom(_, _)
GovLawFrom(txt, i) ==
    IF i > Len(txt) THEN <<>>
    ELSE IF txt[i] # "g" THEN GovLawFrom(txt, i + 1)
    ELSE LET n == Len(txt)
             InRun(k) == IsLetters(txt[k]) \/ IsSpace(txt[k])
             j == CHOOSE a \in (i + 1)..(n + 1) :
                     /\ \A b \in (i + 1)..(a - 1) : IsSpace(txt[b])
                     /\ (a = n + 1 \/ ~IsSpace(txt[a]))
         IN  IF j > n \/ ~IsLetters(txt[j]) THEN GovLawFrom(txt, i + 1)
             ELSE LET k == CHOOSE a \in j..n :
                              /\ \A b \in j..a : InRun(b)
                              /\ (a = n \/ ~InRun(a + 1))
                  IN  <<[span |-> <<j - 1, k>>, loc |-> Strip(SubSeq(txt, j, k))]>>
                      \o GovLawFrom(txt, k + 1)

check_jurisdiction_present_and_allowed(txt, rules) ==
    LET rid == "jurisdiction_present_and_allowed"
        matches == GovLawFrom(txt, 1)
        allowed == rules.jurisdiction.allowed_countries
        is_allowed(k) == \E i \in 1..Len(matches[k].loc) : matches[k].loc[i] \in allowed
        all_allowed == \A k \in 1..Len(matches) : is_allowed(k)
        all_citations == [k \in 1..Len(matches) |->
                            window_quote(txt, matches[k].span, 140)]
        jur_list == JoinNotes([k \in 1..Len(matches) |-> matches[k].loc])
    IN  IF matches = <<>>
        THEN Finding(rid, FALSE,
                     <<"No clear 'governing law / jurisdiction' clause detected.">>, <<>>)
        ELSE Finding(rid, all_allowed,
                     IF Len(matches) = 1
                     THEN <<"Governing law/jurisdiction detected as">>
                          \o matches[1].loc
                          \o <<IF all_allowed THEN "Allowed" ELSE "Not in allowed list.">>
                     ELSE <<"Multiple jurisdiction clauses found:">> \o jur_list
                          \o <<IF all_allowed THEN "All allowed"
                               ELSE "One or more not in allowed list.">>,
                     all_citations)

\* check_lease_property without extraction data (make_report passes None)
check_lease_property(txt, params) ==
    IF ~params.require_property_details
    THEN Finding("lease.property", TRUE,
                 <<"Property details check not required by rule configuration.">>, <<>>)
    ELSE Finding("lease.property", PROPERTY_RE(txt),
                 IF PROPERTY_RE(txt)
                 THEN <<"Property information found in contract text.">>
                 ELSE <<"Property information not clearly identified.">>,
                 <<>>)

\* evaluate_custom_rules: a rule whose type has no handler is skipped
RECURSIVE evaluate_custom_rules(_, _)
evaluate_custom_rules(txt, rules_json) ==
    IF rules_json = <<>> THEN <<>>
    ELSE (IF Head(rules_json).type = "lease.property"
          THEN <<check_lease_property(txt, Head(rules_json).params)>>
          ELSE <<>>)
         \o evaluate_custom_rules(txt, Tail(rules_json))

\* evaluate_text_against_rules: the checks read the text without its noise
\* lines; the findings (the contract value guess is not used by make_report)
evaluate_text_against_rules(txt, rules, pack_data) ==
    LET stripped == _strip_noise(txt)
        mm == max_money(stripped)
        contract_value_guess == IF mm = <<>> THEN NoneInt ELSE mm.amt
    IN  << check_liability_cap_present_and_within_bounds(stripped, rules,
                                                         contract_value_guess),
           check_contract_value_within_limit(stripped, rules),
           check_fraud_clause_present_and_assigned(stripped, rules),
           check_jurisdiction_present_and_allowed(stripped, rules) >>
        \o (IF pack_data # NoPack /\ pack_data.rules_json # <<>>
            THEN evaluate_custom_rules(stripped, pack_data.rules_json)
            ELSE <<>>)

\* enhance_citations_with_page_line
enhance_citations_with_page_line(txt, citations) ==
    [k \in 1..Len(citations) |->
        enhance_citation(_calculate_page_boundaries(txt),
                         _calculate_line_boundaries(txt), citations[k])]

(***************************************************************************)
(* Guard, normalizer and explanations                                       *)
(***************************************************************************)
monetary_keywords ==
    {"contract_value", "liability_cap", "damages", "penalty", "payment",
     "consideration", "fee", "cost", "price", "amount"}

\* Python's `needle in hay` on two strings
PyIn(needle, hay) ==
    \E n \in {needle}, h \in {hay} :
        \E i \in 1..(Len(h) - Len(n) + 1) : SubSeq(h, i, i + Len(n) - 1) = n

UPPERCASE == "ABCDEFGHIJKLMNOPQRSTUVWXYZ"
LOWERCASE == "abcdefghijklmnopqrstuvwxyz"

\* str.lower() on one character of a rule id
LowerOf(c) ==
    IF \E i \in 1..26 : SubSeq(UPPERCASE, i, i) = c
    THEN LET i == CHOOSE j \in 1..26 : SubSeq(UPPERCASE, j, j) = c
         IN  SubSeq(LOWERCASE, i, i)
    ELSE c

\* str.lower() from the i-th character on
RECURSIVE LowerFrom(_, _)
LowerFrom(str, i) ==
    IF i > Len(str) THEN ""
    ELSE LowerOf(SubSeq(str, i, i)) \o LowerFrom(str, i + 1)

lower(str) == LowerFrom(str, 1)

\* the monetary keywords k with `k in rid`, rid = (f.rule_id or "").lower()
KeywordsIn(rule_id) ==
    UNION { {k \in monetary_keywords : PyIn(k, rid)} : rid \in {lower(rule_id)} }

\* the text around a citation: text[max(0, s - pad) : min(len(text), e + pad)]
CitationWindow(txt, c, pad) ==
    LET s == PyMax(0, PyMin(Len(txt), c.char_start))
        e == PyMax(0, PyMin(Len(txt), c.char_end))
    IN  PySlice(txt, PyMax(0, s - pad), PyMin(Len(txt), e + pad))

_looks_like_money(window_text) ==
    IF _SHARE_UNIT(window_text) THEN FALSE ELSE _CURRENCY_HINT(window_text)

_has_share_context(window) == _SHARE_UNIT(window)

_looks_like_money_ctx(window) == _CURRENCY_HINT(window) /\ ~_has_share_context(window)

GUARD_NOTE ==
    "[auto-guard: numeric citations lacked currency context or referenced shares/units]"

\* the guard with a flipped Finding built without its citations
GuardOne_DropsCitations(txt, f) ==
    LET windows == [k \in 1..Len(f.citations) |-> CitationWindow(txt, f.citations[k], 40)]
    IN  IF KeywordsIn(f.rule_id) = {} THEN f
        ELSE IF f.citations = <<>> THEN f
        ELSE IF ~\E k \in 1..Len(windows) : _NUMBERISH(windows[k]) THEN f
        ELSE IF ~\E k \in 1..Len(windows) : _looks_like_money(windows[k])
        THEN [f EXCEPT !.passed = TRUE, !.details = f.details \o <<GUARD_NOTE>>,
                       !.citations = <<>>]
        ELSE f

\* the loop body of _maybe_guard_monetary_false_positives
GuardOne(txt, f) ==
    LET windows == [k \in 1..Len(f.citations) |-> CitationWindow(txt, f.citations[k], 40)]
    IN  IF KeywordsIn(f.rule_id) = {} THEN f
        ELSE IF f.citations = <<>> THEN f
        ELSE IF ~\E k \in 1..Len(windows) : _NUMBERISH(windows[k]) THEN f
        ELSE IF ~\E k \in 1..Len(windows) : _looks_like_money(windows[k])
        THEN [f EXCEPT !.passed = TRUE, !.details = f.details \o <<GUARD_NOTE>>]
        ELSE f

_maybe_guard_monetary_false_positives(txt, fs) ==
    [k \in 1..Len(fs) |-> GuardOne(txt, fs[k])]

EQUITY_NOTE ==
    "Ignored numeric amounts because context indicates equity issuance (shares/units), not monetary consideration."
NO_MONEY_NOTE ==
    "No credible monetary context detected near citations; ignoring share/unit counts for contract value."

\* the normalizer with passed=f.passed in the equity branch
NormalizeOne_KeepsPassed(txt, rules, f) ==
    LET max_contract == rules.contract.max_contract_value
        windows == [k \in 1..Len(f.citations) |-> CitationWindow(txt, f.citations[k], 60)]
        det == f.details
        rid == lower(f.rule_id)
    IN  IF PyIn("contract_value_within_limit", rid)
        THEN IF windows = <<>> THEN f
             ELSE IF \A k \in 1..Len(windows) :
                        _has_share_context(windows[k]) /\ ~_looks_like_money_ctx(windows[k])
             THEN [f EXCEPT !.details = <<EQUITY_NOTE>>]
             ELSE IF max_contract # NoneInt
             THEN IF \E k \in 1..Len(windows) : _looks_like_money_ctx(windows[k])
                  THEN [f EXCEPT !.passed = ~Mentions(det, ExceedPhrases),
                                 !.details = IF det # <<>> THEN det
                                             ELSE <<"Checked against max_contract_value">>]
                  ELSE [f EXCEPT !.passed = TRUE, !.details = <<NO_MONEY_NOTE>>]
             ELSE IF Mentions(det, ExceedPhrases)
             THEN [f EXCEPT !.details =
                      det \o <<"(note: no max_contract_value configured; not enforced)">>]
             ELSE f
        ELSE IF PyIn("jurisdiction_present_and_allowed", rid)
        THEN IF Mentions(det, NotAllowedPhrases) THEN [f EXCEPT !.passed = FALSE]
             ELSE f
        ELSE f

\* the loop body of _normalize_findings_with_rules
NormalizeOne(txt, rules, f) ==
    LET max_contract == rules.contract.max_contract_value
        windows == [k \in 1..Len(f.citations) |-> CitationWindow(txt, f.citations[k], 60)]
        det == f.details
        rid == lower(f.rule_id)
    IN  IF PyIn("contract_value_within_limit", rid)
        THEN IF windows = <<>> THEN f
             ELSE IF \A k \in 1..Len(windows) :
                        _has_share_context(windows[k]) /\ ~_looks_like_money_ctx(windows[k])
             THEN [f EXCEPT !.passed = TRUE, !.details = <<EQUITY_NOTE>>]
             ELSE IF max_contract # NoneInt
             THEN IF \E k \in 1..Len(windows) : _looks_like_money_ctx(windows[k])
                  THEN [f EXCEPT !.passed = ~Mentions(det, ExceedPhrases),
                                 !.details = IF det # <<>> THEN det
                                             ELSE <<"Checked against max_contract_value">>]
                  ELSE [f EXCEPT !.passed = TRUE, !.details = <<NO_MONEY_NOTE>>]
             ELSE IF Mentions(det, ExceedPhrases)
             THEN [f EXCEPT !.details =
                      det \o <<"(note: no max_contract_value configured; not enforced)">>]
             ELSE f
        ELSE IF PyIn("jurisdiction_present_and_allowed", rid)
        THEN IF Mentions(det, NotAllowedPhrases) THEN [f EXCEPT !.passed = FALSE]
             ELSE f
        ELSE f

_normalize_findings_with_rules(txt, rules, fs) ==
    [k \in 1..Len(fs) |-> NormalizeOne(txt, rules, fs[k])]

\* settings.LLM_MAX_EXPLANATIONS
LLM_MAX_EXPLANATIONS == 5

\* what the explanation step meets: the switch is off, the provider module
\* cannot be imported, load_provider throws or returns None, the provider
\* answers every prompt, or every answer is an error
LlmModes == {"disabled", "import_error", "load_error", "provider_none",
             "answers", "llm_error"}

StatusFinding(passed, details) ==
    Finding("llm_explanations_status", passed, details, <<>>)

\* a tag "key:value" is the pair <<key, value>>
ExplanationTags ==
    << <<"llm_analysis_mode", "chat">>, <<"reason_short", "short reason">>,
       <<"reason_detailed", "detailed reason">> >>

\* the loop of _maybe_add_llm_explanations from finding k on
RECURSIVE ExplainLoop(_, _, _, _)
ExplainLoop(fs, k, used, llm) ==
    IF k > Len(fs) THEN [updated |-> <<>>, used |-> used, status |-> <<>>]
    ELSE LET f == fs[k]
             asked == ~f.passed /\ used < LLM_MAX_EXPLANATIONS
                        /\ f.rule_id # "llm_explanations_status"
             added == asked /\ llm = "answers"
             rest == ExplainLoop(fs, k + 1, IF added THEN used + 1 ELSE used, llm)
         IN  [updated |-> <<IF added THEN [f EXCEPT !.tags = f.tags \o ExplanationTags]
                            ELSE f>> \o rest.updated,
              used |-> rest.used,
              status |-> (IF added THEN <<"explanation_added_for=" \o f.rule_id>>
                          ELSE IF asked THEN <<"explanation_failed_for=" \o f.rule_id>>
                          ELSE <<>>) \o rest.status]

_maybe_add_llm_explanations(fs, llm) ==
    CASE llm = "disabled" ->
            Append(fs, StatusFinding(TRUE, <<"LLM explanations disabled.">>))
      [] llm = "import_error" ->
            Append(fs, StatusFinding(FALSE, <<"LLM provider module could not be imported">>))
      [] llm = "load_error" ->
            Append(fs, StatusFinding(FALSE, <<"LLM provider could not be loaded">>))
      [] llm = "provider_none" ->
            Append(fs, StatusFinding(FALSE, <<"LLM provider returned None">>))
      [] OTHER ->
            LET loop == ExplainLoop(fs, 1, 0, llm)
                failed == Cardinality({k \in 1..Len(fs) : ~fs[k].passed})
            IN  Append(loop.updated,
                       StatusFinding(TRUE,
                           <<"llm_explanations=enabled", "provider_loaded=True">>
                           \o loop.status
                           \o <<"explanations_added=" \o ToString(loop.used)
                                \o "/" \o ToString(failed)>>))

(***************************************************************************)
(* Report V2                                                                *)
(***************************************************************************)
PRELIM_CHECK_CONFIG ==
    [rid \in {"liability_cap_present_and_within_bounds", "contract_value_within_limit",
              "fraud_clause_present_and_assigned", "jurisdiction_present_and_allowed"} |->
        CASE rid = "liability_cap_present_and_within_bounds" ->
                [label |-> "Liability Cap Present And Within Bounds", severity |-> "High"]
          [] rid = "contract_value_within_limit" ->
                [label |-> "Contract Value Within Limit", severity |-> "Medium"]
          [] rid = "fraud_clause_present_and_assigned" ->
                [label |-> "Fraud Clause Present And Assigned", severity |-> "High"]
          [] OTHER ->
                [label |-> "Jurisdiction Present And Allowed", severity |-> "High"]]

PRELIM_RULE_IDS == DOMAIN PRELIM_CHECK_CONFIG

CHECK_TO_TERM ==
    [rid \in PRELIM_RULE_IDS |->
        CASE rid = "jurisdiction_present_and_allowed" -> "Governing Law"
          [] rid = "fraud_clause_present_and_assigned" -> "Fraud Exclusion"
          [] rid = "liability_cap_present_and_within_bounds" -> "Liability Cap"
          [] OTHER -> NoneS]

\* the value of the first tag with the key, else None
TagValue(tags, key) ==
    IF \E k \in 1..Len(tags) : tags[k][1] = key
    THEN tags[CHOOSE k \in 1..Len(tags) :
                 tags[k][1] = key /\ \A j \in (k + 1)..Len(tags) : tags[j][1] # key][2]
    ELSE NoneS

\* build_preliminary_compliance_checks; a dict is a function on its keys and
\* None is the empty dict
RECURSIVE build_preliminary_compliance_checks(_, _)
build_preliminary_compliance_checks(fs, phase2) ==
    IF fs = <<>> THEN <<>>
    ELSE LET finding == Head(fs)
             rest == build_preliminary_compliance_checks(Tail(fs), phase2)
         IN  IF finding.rule_id \notin DOMAIN PRELIM_CHECK_CONFIG THEN rest
             ELSE
             LET cfg == PRELIM_CHECK_CONFIG[finding.rule_id]
                 term_name == CHECK_TO_TERM[finding.rule_id]
                 wired == /\ DOMAIN phase2 # {}
                          /\ term_name # NoneS
                          /\ term_name \in DOMAIN phase2
                          /\ phase2[term_name] # <<>>
                 citations_list ==
                     IF wired
                     THEN Append(finding.citations,
                                 Citation(0, 0, PySlice(phase2[term_name], 0, 200)))
                     ELSE finding.citations
             IN  <<[check_id |-> finding.rule_id, label |-> cfg.label,
                    status |-> IF finding.passed THEN "PASS" ELSE "FAIL",
                    severity |-> cfg.severity, message |-> finding.details,
                    citations |-> citations_list,
                    reason_short |-> TagValue(finding.tags, "reason_short"),
                    reason_detailed |-> TagValue(finding.tags, "reason_detailed")]>>
                 \o rest

\* rule_id.replace("_", " ").replace(".", " ").title() and the category
RuleLabel(rule_id) ==
    CASE rule_id = "lease.property" -> "Lease Property"
      [] rule_id = "no_findings_returned" -> "No Findings Returned"
      [] OTHER -> rule_id

RuleCategory(rule_id) ==
    CASE rule_id = "lease.property" -> "Lease"
      [] OTHER -> "General"

RECURSIVE build_rulepack_rule_results(_)
build_rulepack_rule_results(fs) ==
    IF fs = <<>> THEN <<>>
    ELSE LET f == Head(fs)
             rest == build_rulepack_rule_results(Tail(fs))
         IN  IF f.rule_id \in PRELIM_RULE_IDS THEN rest
             ELSE IF f.rule_id = "llm_explanations_status" THEN rest
             ELSE <<[rule_id |-> f.rule_id, label |-> RuleLabel(f.rule_id),
                     category |-> RuleCategory(f.rule_id),
                     status |-> IF f.passed THEN "PASS" ELSE "FAIL",
                     severity |-> "Medium", message |-> f.details,
                     citations |-> f.citations,
                     risk_statement |-> NoneS, recommendation |-> NoneS]>>
                  \o rest

\* evaluate_rulepack_rules as one call
RECURSIVE EvaluateFrom(_, _, _)
EvaluateFrom(rules, k, ctx) ==
    IF k > Len(rules) THEN [raised |-> FALSE, results |-> <<>>]
    ELSE LET step == EvaluateOne(rules[k], ctx) IN
         IF step.raised THEN [raised |-> TRUE, results |-> <<>>]
         ELSE LET rest == EvaluateFrom(rules, k + 1, step.ctx) IN
              [raised |-> rest.raised,
               results |-> IF rest.raised THEN <<>> ELSE <<step.result>> \o rest.results]

evaluate_rulepack_rules(rp, kt) == EvaluateFrom(rp.rules, 1, BuildContext(rp, kt))

\* the v2.0 rule pack selected for the document type
rulepack_v2 == [rules |-> <<RuleDef(1)>>, key_terms |-> DeclaredTerms]

LLM_QUOTE == <<"g", "a">>

EmptyDict == [n \in {} |-> <<>>]

\* Phase 2: no rule pack is selected, or extract_doc_type_key_terms returns
\* key terms and citation texts
Phase2Responses ==
    { [selected |-> FALSE, key_terms |-> EmptyDict, citations |-> EmptyDict],
      [selected |-> TRUE, key_terms |-> EmptyDict, citations |-> EmptyDict],
      [selected |-> TRUE,
       key_terms |-> [n \in {"amount"} |-> VInt(1500)],
       citations |-> [n \in {"Governing Law", "Fraud Exclusion", "Liability Cap"} |->
                         LLM_QUOTE]],
      [selected |-> TRUE,
       key_terms |-> [n \in {"amount"} |-> VInt(500)],
       citations |-> [n \in {"Governing Law", "Liability Cap"} |->
                         IF n = "Governing Law" THEN LLM_QUOTE ELSE <<>>]] }

\* the DocumentReportV2 that build_report_v2_from_v1 constructs from its
\* local lists
DocumentReportV2(v1, phase2, checks, rules) ==
    [compliance_checks |-> checks,
     rulepack_rules |-> rules,
     overall_risk_level |-> calculate_risk_level(checks, rules),
     citation_map |-> [n \in {t \in DOMAIN phase2.citations :
                                /\ DOMAIN phase2.key_terms # {}
                                /\ phase2.citations[t] # <<>>} |->
                          phase2.citations[n]],
     passed_all |-> v1.passed_all]

\* build_report_v2_from_v1 once the Phase 2 rules are evaluated: each local
\* list is computed once and bound, as the function's local variables are
build_report_v2_with_rules(v1, phase2, phase2_rules) ==
    CHOOSE out \in
        { [raised |-> phase2_rules.raised,
           report |-> DocumentReportV2(v1, phase2, checks, rules)] :
          checks \in
              { build_preliminary_compliance_checks(v1.findings, phase2.citations) },
          rules \in
              { build_rulepack_rule_results(v1.findings) \o phase2_rules.results } } :
        TRUE

build_report_v2_from_v1(v1, phase2) ==
    CHOOSE out \in
        { build_report_v2_with_rules(v1, phase2, phase2_rules) :
          phase2_rules \in
              { IF phase2.selected
                THEN evaluate_rulepack_rules(rulepack_v2, phase2.key_terms)
                ELSE [raised |-> FALSE, results |-> <<>>] } } : TRUE

(***************************************************************************)
(* make_report, phase by phase                                              *)
(***************************************************************************)
\* the call make_report(document_name, text, rules, pack_data) has been made
InitReport ==
    /\ doc \in Documents
    /\ rp_pc = "start"
    /\ findings = <<>>
    /\ phase2_citations = <<>>
    /\ report_v1 = <<>>
    /\ report_v2 = <<>>
    /\ IdleEval /\ IdleRisk /\ IdleMap /\ IdleClassify /\ IdlePacks

\* Phase 3: findings, _guess = evaluate_text_against_rules(...)
EvaluateText ==
    /\ rp_pc = "start"
    /\ findings' = evaluate_text_against_rules(doc.text, doc.rules, doc.pack_data)
    /\ rp_pc' = "evaluated"
    /\ UNCHANGED <<doc, phase2_citations, report_v1, report_v2,
                   evalVars, riskVars, mapVars, clsVars, packVars>>

\* Phase 4a: page and line numbers for the citations of every finding
EnhanceFindings ==
    /\ rp_pc = "evaluated"
    /\ findings' = [k \in 1..Len(findings) |->
                      IF findings[k].citations # <<>>
                      THEN [findings[k] EXCEPT !.citations =
                              enhance_citations_with_page_line(doc.text, @)]
                      ELSE findings[k]]
    /\ rp_pc' = "enhanced"
    /\ UNCHANGED <<doc, phase2_citations, report_v1, report_v2,
                   evalVars, riskVars, mapVars, clsVars, packVars>>

\* Phase 4b
GuardFindings ==
    /\ rp_pc = "enhanced"
    /\ findings' = IF findings # <<>>
                   THEN _maybe_guard_monetary_false_positives(doc.text, findings)
                   ELSE findings
    /\ rp_pc' = "guarded"
    /\ UNCHANGED <<doc, phase2_citations, report_v1, report_v2,
                   evalVars, riskVars, mapVars, clsVars, packVars>>

\* Phase 4c
NormalizeFindings ==
    /\ rp_pc = "guarded"
    /\ findings' = IF findings # <<>>
                   THEN _normalize_findings_with_rules(doc.text, doc.rules, findings)
                   ELSE findings
    /\ rp_pc' = "normalized"
    /\ UNCHANGED <<doc, phase2_citations, report_v1, report_v2,
                   evalVars, riskVars, mapVars, clsVars, packVars>>

\* Phase 4d
ExplainFindings ==
    /\ rp_pc = "normalized"
    /\ \E llm \in LlmModes :
          findings' = IF findings # <<>>
                      THEN _maybe_add_llm_explanations(findings, llm)
                      ELSE findings
    /\ rp_pc' = "explained"
    /\ UNCHANGED <<doc, phase2_citations, report_v1, report_v2,
                   evalVars, riskVars, mapVars, clsVars, packVars>>

\* Phase 5: the placeholder for an empty list and DocumentReport(...)
AssembleReport ==
    /\ rp_pc = "explained"
    /\ LET fs == IF findings = <<>>
                 THEN <<Finding("no_findings_returned", FALSE,
                                <<"No findings returned by the rule engine for this document.">>,
                                <<>>)>>
                 ELSE findings
       IN  /\ findings' = fs
           /\ report_v1' = [passed_all |-> \A k \in 1..Len(fs) : fs[k].passed,
                            findings |-> fs]
    /\ rp_pc' = "assembled"
    /\ UNCHANGED <<doc, phase2_citations, report_v2, evalVars, riskVars, mapVars, clsVars, packVars>>

\* report.report_v2 = build_report_v2_from_v1(...); return report
BuildReportV2 ==
    /\ rp_pc = "assembled"
    /\ \E phase2 \in Phase2Responses :
          LET out == build_report_v2_from_v1(report_v1, phase2) IN
          /\ phase2_citations' = phase2.citations
          /\ IF out.raised
             THEN rp_pc' = "raised" /\ UNCHANGED report_v2
             ELSE rp_pc' = "done" /\ report_v2' = out.report
    /\ UNCHANGED <<doc, findings, report_v1, evalVars, riskVars, mapVars, clsVars, packVars>>

NextReport ==
    \/ EvaluateText \/ EnhanceFindings \/ GuardFindings \/ NormalizeFindings
    \/ ExplainFindings \/ AssembleReport \/ BuildReportV2

SpecReport == InitReport /\ [][NextReport]_vars

(***************************************************************************)
(* make_report on documents that state their governing law                  *)
(***************************************************************************)
GoverningLawAlphabet == {"b", "g", "a", NEWLINE}

\* allowed list without and with the jurisdiction the documents name
GoverningLawDocuments ==
    { [text |-> t, rules |-> c[1], pack_data |-> c[2]] :
      t \in SeqsUpTo(GoverningLawAlphabet, MaxDocLen),
      c \in { <<DefaultRuleSet, NoPack>>, <<LooseRuleSet, LeasePack>> } }

InitGoverningLaw ==
    /\ doc \in GoverningLawDocuments
    /\ rp_pc = "start"
    /\ findings = <<>>
    /\ phase2_citations = <<>>
    /\ report_v1 = <<>>
    /\ report_v2 = <<>>
    /\ IdleEval /\ IdleRisk /\ IdleMap /\ IdleClassify /\ IdlePacks

SpecGoverningLaw == InitGoverningLaw /\ [][NextReport]_vars

(***************************************************************************)
(* make_report on documents that state amounts                             *)
(***************************************************************************)
AmountAlphabet == {"9", "$", "g", "l", "a"}

AmountDocuments ==
    { [text |-> t, rules |-> c[1], pack_data |-> c[2]] :
      t \in SeqsUpTo(AmountAlphabet, MaxDocLen),
      c \in { <<DefaultRuleSet, NoPack>>, <<StrictRuleSet, NoPack>>,
              <<LooseRuleSet, LeasePack>> } }

InitAmounts ==
    /\ doc \in AmountDocuments
    /\ rp_pc = "start"
    /\ findings = <<>>
    /\ phase2_citations = <<>>
    /\ report_v1 = <<>>
    /\ report_v2 = <<>>
    /\ IdleEval /\ IdleRisk /\ IdleMap /\ IdleClassify /\ IdlePacks

SpecAmounts == InitAmounts /\ [][NextReport]_vars

(***************************************************************************)
(* make_report on documents that name an allowed governing law, under a    *)
(* rule set that a document can satisfy                                     *)
(***************************************************************************)
VerdictAlphabet == {"l", "m", "f", "9", "x"}

\* "Texas" allowed, no fraud clause required, no contract limit
PermissiveRuleSet ==
    [DefaultRuleSet EXCEPT !.jurisdiction.allowed_countries = {"a"},
                           !.fraud.require_fraud_clause = FALSE]

\* every text opens with "governing law Texas"
VerdictDocuments ==
    { [text |-> <<"g", "a">> \o t, rules |-> r, pack_data |-> NoPack] :
      t \in SeqsUpTo(VerdictAlphabet, MaxDocLen),
      r \in {PermissiveRuleSet, DefaultRuleSet} }

InitVerdict ==
    /\ doc \in VerdictDocuments
    /\ rp_pc = "start"
    /\ findings = <<>>
    /\ phase2_citations = <<>>
    /\ report_v1 = <<>>
    /\ report_v2 = <<>>
    /\ IdleEval /\ IdleRisk /\ IdleMap /\ IdleClassify /\ IdlePacks

SpecVerdict == InitVerdict /\ [][NextReport]_vars

(***************************************************************************)
(* The guard and the normalizer called on any list of findings.  A text is  *)
(* two short segments, next to each other or separated by a run of plain    *)
(* words longer than the widest citation window, so that two citations can  *)
(* have windows with different content.                                     *)
(***************************************************************************)
MaxSegLen == 1

SegAlphabet == {"9", "$", "s"}

Segments == SeqsUpTo(SegAlphabet, MaxSegLen)

\* the second segment is one lexeme at most
ShortSegments == SeqsUpTo(SegAlphabet, 1)

\* more plain words than the 60 offsets _normalize_findings_with_rules looks
\* to either side of a citation
GapLen == 61

Gap == [k \in 1..GapLen |-> "a"]

\* a run of plain words that the 40 offsets of the guard do not bridge and
\* the 60 offsets of the normalizer do
MidGapLen == 50

MidGap == [k \in 1..MidGapLen |-> "a"]

RewriteRuleIds ==
    {"contract_value_within_limit", "liability_cap_present_and_within_bounds",
     "jurisdiction_present_and_allowed", "rent_escalation_cap",
     "consideration_adequate", "Late_Fee_Terms"}

\* details as the checks word them
RewriteDetails ==
    { <<>>,
      <<"Largest detected amount", "$", "9.00", "exceeds", "configured limit", "5.00">>,
      <<"Largest detected amount", "$", "9.00", "is within", "configured limit", "50.00">>,
      <<"Governing law/jurisdiction detected as", "Texas", "Not in allowed list.">> }

\* citation lists over a text left \o gap \o right: none, the left segment,
\* the left and the right segment
RewriteCitations(left, gap, right) ==
    LET l == Citation(0, Len(left), "left")
        r == Citation(Len(left) + Len(gap), Len(left) + Len(gap) + Len(right), "right")
    IN  {<<>>, <<l>>, <<l, r>>}

\* the findings a caller may pass; a failing one carries a severity tag
RewriteFindings(left, gap, right) ==
    { [rule_id |-> rule_id, passed |-> passed, details |-> details,
       citations |-> citations,
       tags |-> IF passed THEN <<>> ELSE << <<"severity", "high">> >>] :
      rule_id \in RewriteRuleIds, passed \in BOOLEAN, details \in RewriteDetails,
      citations \in RewriteCitations(left, gap, right) }

\* a caller holds a text, a rule set and a list of findings
InitRewrite ==
    /\ \E left \in Segments, right \in ShortSegments, gap \in {<<>>, MidGap, Gap},
          rules \in {DefaultRuleSet, StrictRuleSet} :
          /\ doc = [text |-> left \o gap \o right, rules |-> rules, pack_data |-> NoPack]
          /\ \E f \in RewriteFindings(left, gap, right) : findings = <<f>>
    /\ rp_pc = "enhanced"
    /\ phase2_citations = <<>>
    /\ report_v1 = <<>>
    /\ report_v2 = <<>>
    /\ IdleEval /\ IdleRisk /\ IdleMap /\ IdleClassify /\ IdlePacks

\* _maybe_guard_monetary_false_positives, then _normalize_findings_with_rules
NextRewrite == GuardFindings \/ NormalizeFindings

SpecRewrite == InitRewrite /\ [][NextRewrite]_vars

(***************************************************************************)
(* The document classifier.  A text is a sequence of passages of           *)
(* PASSAGE_CHARS characters, each holding at most one match:               *)
(*   "ta" "tb" "tc"  the title of a profile   "k"  the keyword "liability" *)
(*   "w"  plain words                                                      *)
(*   "sa" a passage that says "strategic alliance" SA_REPEATS times        *)
(* Scores are counted in hundredths of a point and confidences in          *)
(* thousandths, so that score / 10.0 and confidence * 10.0 keep the        *)
(* numeral.                                                                *)
(***************************************************************************)
MaxClsLen == 2
MaxPacks == 3
PASSAGE_CHARS == 1000
HEAD_CHARS == 6000
ClsAlphabet == {"ta", "tb", "tc", "k", "w"}
ClsTexts == SeqsUpTo(ClsAlphabet, MaxClsLen)

Profiles ==
    { [pack_id |-> "alliance", doc_type_names |-> <<"ta">>],
      [pack_id |-> "lease", doc_type_names |-> <<"tb">>],
      [pack_id |-> "generic", doc_type_names |-> <<"tc", "td">>] }

\* a dict of packs: the packs in declaration order, one per id
PackDicts ==
    { ps \in SeqsUpTo(Profiles, MaxPacks) :
        \A i, j \in DOMAIN ps : i # j => ps[i].pack_id # ps[j].pack_id }

PackIds(packs) == { packs[i].pack_id : i \in DOMAIN packs }

SA_REPEATS == 7
\* "liability": 1.5, "strategic alliance": 3.0
keyword_weights == [k \in {"k", "sa"} |-> IF k = "k" THEN 150 ELSE 300]
\* r"strategic\s+alliance": 4.0
section_patterns == [k \in {"sa"} |-> 400]
TITLE_WEIGHT == 500
DOC_TYPE_CONFIDENCE_THRESHOLD == 650
LLM_MIN_CONFIDENCE == 300

\* the configuration: DOC_TYPE_USE_LLM_FALLBACK and
\* DOC_TYPE_CONFIDENCE_THRESHOLD, the default and one a document can score
ConfidenceThresholds == {DOC_TYPE_CONFIDENCE_THRESHOLD, 670}
ClassifierSettings ==
    [use_llm_fallback : BOOLEAN, confidence_threshold : ConfidenceThresholds]

\* what the fallback classifier meets: no provider, load_provider raising,
\* the call raising, no response, an "[llm error:" response, a response that
\* is no JSON object with a numeric confidence, or a pack id with a
\* confidence
LlmFailureKinds ==
    {"no_provider", "load_raises", "call_raises", "no_response", "llm_error",
     "malformed"}
LlmConfidences == {200, 300, 510, 900}
LlmAnswers(packs) ==
    { [kind |-> k, pack_id |-> NoneS, confidence |-> 0] : k \in LlmFailureKinds }
    \cup
    { [kind |-> "json", pack_id |-> id, confidence |-> c] :
        id \in PackIds(packs) \cup {"unknown"}, c \in LlmConfidences }

\* the matches of a phrase in one passage
Occurrences(passage, phrase) ==
    IF passage # phrase THEN 0 ELSE IF phrase = "sa" THEN SA_REPEATS ELSE 1

\* len(pattern.findall(head))
RECURSIVE CountFrom(_, _, _)
CountFrom(head, phrase, i) ==
    IF i > Len(head) THEN 0
    ELSE Occurrences(head[i], phrase) + CountFrom(head, phrase, i + 1)

CountIn(head, phrase) == CountFrom(head, phrase, 1)

RECURSIVE DedupeFrom(_, _)
DedupeFrom(names, i) ==
    IF i > Len(names) THEN <<>>
    ELSE (IF \E j \in 1..(i - 1) : names[j] = names[i]
          THEN <<>> ELSE <<names[i]>>) \o DedupeFrom(names, i + 1)

normalize_and_dedupe_titles(pack) == DedupeFrom(pack.doc_type_names, 1)

RECURSIVE TitleReasons(_, _, _)
TitleReasons(titles, head, i) ==
    IF i > Len(titles) THEN <<>>
    ELSE (IF CountIn(head, titles[i]) > 0
          THEN << <<"title_match", titles[i],
                    CountIn(head, titles[i]) * TITLE_WEIGHT>> >>
          ELSE <<>>) \o TitleReasons(titles, head, i + 1)

RECURSIVE WeightedReasons(_, _, _, _)
WeightedReasons(kind, weights, phrases, head) ==
    IF phrases = <<>> THEN <<>>
    ELSE (IF CountIn(head, phrases[1]) > 0
          THEN << <<kind, phrases[1],
                    CountIn(head, phrases[1]) * weights[phrases[1]]>> >>
          ELSE <<>>) \o WeightedReasons(kind, weights, Tail(phrases), head)

\* the keywords and the section patterns in the order of their dicts
KeywordReasons(head) ==
    WeightedReasons("keyword", keyword_weights, <<"sa", "k">>, head)

SectionReasons(head) ==
    WeightedReasons("section", section_patterns, <<"sa">>, head)

length_bonus(txt) == PyMin((Len(txt) * PASSAGE_CHARS * 100) \div 10000, 100)

RECURSIVE SumScores(_, _)
SumScores(reasons, i) ==
    IF i > Len(reasons) THEN 0 ELSE reasons[i][3] + SumScores(reasons, i + 1)

PackScore(txt, head, pack) ==
    LET reasons == TitleReasons(normalize_and_dedupe_titles(pack), head, 1)
                   \o KeywordReasons(head) \o SectionReasons(head)
        total == SumScores(reasons, 1) + length_bonus(txt)
        all_reasons == IF length_bonus(txt) > 10
                       THEN Append(reasons, <<"length_bonus", "", length_bonus(txt)>>)
                       ELSE reasons
    IN [pack_id |-> pack.pack_id,
        doc_type |-> IF pack.doc_type_names # <<>>
                     THEN pack.doc_type_names[1] ELSE "Unknown",
        score |-> IF Len(pack.doc_type_names) > 1
                  THEN (total * 9) \div 10 ELSE total,
        reason |-> SubSeq(all_reasons, 1, PyMin(5, Len(all_reasons)))]

\* list.sort(key=score, reverse=True): stable, equal scores keep their order
SortRank(cs, i) ==
    Cardinality({ j \in DOMAIN cs : cs[j].score > cs[i].score })
    + Cardinality({ j \in 1..i : cs[j].score = cs[i].score })

sort_by_score(cs) ==
    [ p \in 1..Len(cs) |-> cs[CHOOSE i \in DOMAIN cs : SortRank(cs, i) = p] ]

score_document_heuristic(txt, packs) ==
    IF txt = <<>> THEN <<>>
    ELSE LET head == SubSeq(txt, 1, PyMin(Len(txt), HEAD_CHARS \div PASSAGE_CHARS))
             scored == [ i \in DOMAIN packs |-> PackScore(txt, head, packs[i]) ]
         IN sort_by_score(SelectSeq(scored, LAMBDA c : c.score > 0))

should_use_llm_fallback(settings, confidence) ==
    settings.use_llm_fallback /\ confidence < settings.confidence_threshold

\* a fallback classifier that accepts a confidence of 0.3
classify_with_llm_fallback_AcceptsLow(settings, packs, answer) ==
    IF ~settings.use_llm_fallback \/ answer.kind \in {"no_provider", "load_raises"}
    THEN [candidate |-> <<>>, calls |-> 0]
    ELSE IF answer.kind = "json" /\ answer.pack_id \in PackIds(packs)
            /\ answer.confidence >= LLM_MIN_CONFIDENCE
    THEN [candidate |->
             << [pack_id |-> answer.pack_id, doc_type |-> "Unknown",
                 score |-> answer.confidence,
                 reason |-> << <<"llm_fallback", "", answer.confidence>> >>] >>,
          calls |-> 1]
    ELSE [candidate |-> <<>>, calls |-> 1]

\* the candidate (or none) and the number of calls of the language model
classify_with_llm_fallback(settings, packs, answer) ==
    IF ~settings.use_llm_fallback THEN [candidate |-> <<>>, calls |-> 0]
    ELSE IF answer.kind \in {"no_provider", "load_raises"}
    THEN [candidate |-> <<>>, calls |-> 0]
    ELSE IF answer.kind \in {"call_raises", "no_response", "llm_error", "malformed"}
    THEN [candidate |-> <<>>, calls |-> 1]
    ELSE IF answer.pack_id \in PackIds(packs)
            /\ answer.confidence > LLM_MIN_CONFIDENCE
    THEN LET pack == packs[CHOOSE i \in DOMAIN packs :
                               packs[i].pack_id = answer.pack_id]
         IN [candidate |->
                << [pack_id |-> answer.pack_id,
                    doc_type |-> IF pack.doc_type_names # <<>>
                                 THEN pack.doc_type_names[1] ELSE "Unknown",
                    score |-> answer.confidence,
                    reason |-> << <<"llm_fallback", "", answer.confidence>> >>] >>,
             calls |-> 1]
    ELSE [candidate |-> <<>>, calls |-> 1]

\* a classifier that asks the fallback classifier whatever the confidence
classify_candidates_AlwaysAsks(settings, packs, answer, candidates) ==
    IF candidates = <<>>
    THEN [selected |-> packs[1].pack_id, candidates |-> <<>>,
          reason |-> <<"no_heuristic_matches_fallback_to_default">>,
          llm_calls |-> 0]
    ELSE LET llm == classify_with_llm_fallback(settings, packs, answer)
             all_candidates == sort_by_score(candidates \o llm.candidate)
         IN IF llm.candidate # <<>>
            THEN [selected |-> all_candidates[1].pack_id,
                  candidates |-> all_candidates,
                  reason |-> <<"llm_fallback_triggered", candidates[1].score,
                               settings.confidence_threshold>>,
                  llm_calls |-> llm.calls]
            ELSE [selected |-> candidates[1].pack_id,
                  candidates |-> candidates,
                  reason |-> <<"heuristic_confident", candidates[1].score>>,
                  llm_calls |-> llm.calls]

\* a classifier that keeps the top heuristic candidate after the re-sort
classify_candidates_KeepsHeuristicTop(settings, packs, answer, candidates) ==
    IF candidates = <<>>
    THEN [selected |-> packs[1].pack_id, candidates |-> <<>>,
          reason |-> <<"no_heuristic_matches_fallback_to_default">>,
          llm_calls |-> 0]
    ELSE IF should_use_llm_fallback(settings, candidates[1].score)
    THEN LET llm == classify_with_llm_fallback(settings, packs, answer)
         IN IF llm.candidate # <<>>
            THEN [selected |-> candidates[1].pack_id,
                  candidates |-> sort_by_score(candidates \o llm.candidate),
                  reason |-> <<"llm_fallback_triggered", candidates[1].score,
                               settings.confidence_threshold>>,
                  llm_calls |-> llm.calls]
            ELSE [selected |-> candidates[1].pack_id,
                  candidates |-> candidates,
                  reason |-> <<"heuristic_confident", candidates[1].score>>,
                  llm_calls |-> llm.calls]
    ELSE [selected |-> candidates[1].pack_id,
          candidates |-> candidates,
          reason |-> <<"heuristic_confident", candidates[1].score>>,
          llm_calls |-> 0]

\* classify_document once Stage A has scored the packs
classify_candidates(settings, packs, answer, candidates) ==
    IF candidates = <<>>
    THEN [selected |-> packs[1].pack_id, candidates |-> <<>>,
          reason |-> <<"no_heuristic_matches_fallback_to_default">>,
          llm_calls |-> 0]
    ELSE IF should_use_llm_fallback(settings, candidates[1].score)
    THEN LET llm == classify_with_llm_fallback(settings, packs, answer)
             all_candidates == sort_by_score(candidates \o llm.candidate)
         IN IF llm.candidate # <<>>
            THEN [selected |-> all_candidates[1].pack_id,
                  candidates |-> all_candidates,
                  reason |-> <<"llm_fallback_triggered", candidates[1].score,
                               settings.confidence_threshold>>,
                  llm_calls |-> llm.calls]
            ELSE [selected |-> candidates[1].pack_id,
                  candidates |-> candidates,
                  reason |-> <<"heuristic_confident", candidates[1].score>>,
                  llm_calls |-> llm.calls]
    ELSE [selected |-> candidates[1].pack_id,
          candidates |-> candidates,
          reason |-> <<"heuristic_confident", candidates[1].score>>,
          llm_calls |-> 0]

\* the returned tuple, and the calls of the language model on the way
classify_document(settings, txt, packs, answer) ==
    IF packs = <<>>
    THEN [selected |-> NoneS, candidates |-> <<>>,
          reason |-> <<"no_packs_available">>, llm_calls |-> 0]
    ELSE CHOOSE out \in
           { classify_candidates(settings, packs, answer, candidates) :
               candidates \in {score_document_heuristic(txt, packs)} } : TRUE

Returned(out) ==
    [selected |-> out.selected, candidates |-> out.candidates,
     reason |-> out.reason]

InitClassify ==
    /\ cls_text \in ClsTexts
    /\ cls_packs \in PackDicts
    /\ cls_settings \in ClassifierSettings
    /\ cls_answer = <<>>
    /\ cls_llm_calls = 0
    /\ cls_scored = <<>>
    /\ cls_result = <<>>
    /\ cls_pc = "called"
    /\ IdleEval /\ IdleRisk /\ IdleMap /\ IdleReport /\ IdlePacks

ClassifyDocument ==
    /\ cls_pc = "called"
    /\ \E answer \in LlmAnswers(cls_packs) :
         \E out \in {classify_document(cls_settings, cls_text, cls_packs, answer)} :
           /\ cls_answer' = answer
           /\ cls_result' = Returned(out)
           /\ cls_llm_calls' = cls_llm_calls + out.llm_calls
    /\ cls_pc' = "returned"
    /\ UNCHANGED <<cls_text, cls_packs, cls_settings, cls_scored>>
    /\ UNCHANGED <<evalVars, riskVars, mapVars, repVars, packVars>>

NextClassify == ClassifyDocument

SpecClassify == InitClassify /\ [][NextClassify]_vars

(***************************************************************************)
(* score_document_heuristic on two profiles that differ in one alias        *)
(***************************************************************************)
ALIAS == "tb"
AliasAlphabet == {"sa", "ta", ALIAS, "w"}
BaseNameLists == { <<>>, <<"ta">>, <<"ta", "tc">> }

\* a profile and the profile that has the alias in addition, in either
\* declaration order
AliasPackDicts ==
    UNION { { << [pack_id |-> "plain", doc_type_names |-> names],
                 [pack_id |-> "aliased", doc_type_names |-> Append(names, ALIAS)] >>,
              << [pack_id |-> "aliased", doc_type_names |-> Append(names, ALIAS)],
                 [pack_id |-> "plain", doc_type_names |-> names] >> } :
            names \in BaseNameLists }

InitAlias ==
    /\ cls_text \in SeqsUpTo(AliasAlphabet, MaxClsLen)
    /\ cls_packs \in AliasPackDicts
    /\ cls_settings = <<>>
    /\ cls_answer = <<>>
    /\ cls_llm_calls = 0
    /\ cls_scored = <<>>
    /\ cls_result = <<>>
    /\ cls_pc = "scoring"
    /\ IdleEval /\ IdleRisk /\ IdleMap /\ IdleReport /\ IdlePacks

ScoreDocument ==
    /\ cls_pc = "scoring"
    /\ cls_scored' = score_document_heuristic(cls_text, cls_packs)
    /\ cls_pc' = "scored"
    /\ UNCHANGED <<cls_text, cls_packs, cls_settings, cls_answer,
                   cls_llm_calls, cls_result>>
    /\ UNCHANGED <<evalVars, riskVars, mapVars, repVars, packVars>>

NextAlias == ScoreDocument

SpecAlias == InitAlias /\ [][NextAlias]_vars

(***************************************************************************)
(* Rule-pack lifecycle: rulepack_manager.py (rulepack_repo.py holds the     *)
(* same functions) and the tools of mcp_server/tools.py, over the table    *)
(* rule_packs whose primary key is (id, version)                            *)
(***************************************************************************)
MaxVersion == 2
MaxRows == 2

RulePackIds == {"pa", "pb"}
SchemaVersions == {"1.0", "1.1"}
DocTypeNameLists == {<<"ta">>}
PatchFields == {"schema_version", "doc_type_names"}

PackKeys == RulePackIds \X (1..MaxVersion)

\* the columns of a record that are not its key or its status
PackContents ==
    [schema_version : SchemaVersions, doc_type_names : DocTypeNameLists]

\* RulePackCreate: schema_version defaults to "1.0"; the validator not_empty
\* refuses an empty doc_type_names before create_draft is reached
RulePackCreate ==
    [id : RulePackIds, schema_version : SchemaVersions,
     doc_type_names : DocTypeNameLists]

\* RulePackUpdate: a field outside `given` is None
RulePackUpdate ==
    [given : SUBSET PatchFields, schema_version : SchemaVersions,
     doc_type_names : DocTypeNameLists \cup {<<>>}]

Record(status, content) == [status |-> status, content |-> content]

\* the table with the row `key` inserted or replaced
Put(store, key, rec) ==
    [k \in (DOMAIN store) \cup {key} |-> IF k = key THEN rec ELSE store[k]]

\* the table without the row `key`
Remove(store, key) == [k \in (DOMAIN store) \ {key} |-> store[k]]

VersionsOf(store, id) == {k[2] : k \in {k \in DOMAIN store : k[1] = id}}

SetMax(S) == CHOOSE m \in S : \A n \in S : n <= m

_next_version_for_id(store, pack_id) ==
    LET versions == VersionsOf(store, pack_id)
    IN  IF versions # {} THEN SetMax(versions) + 1 ELSE 1

\* what a lifecycle call leaves behind: the committed table and how it ended
Committed(store) == [store |-> store, error |-> "none"]
Raised(store, error) == [store |-> store, error |-> error]

create_draft(store, payload) ==
    LET version == _next_version_for_id(store, payload.id)
    IN  Committed(Put(store, <<payload.id, version>>,
                      Record("draft",
                             [schema_version |-> payload.schema_version,
                              doc_type_names |-> payload.doc_type_names])))

\* the field-by-field assignments of update_draft; they are made on the
\* session's copy of the record and reach the table only with db.commit()
Patched(content, patch) ==
    [schema_version |->
         IF "schema_version" \in patch.given THEN patch.schema_version
         ELSE content.schema_version,
     doc_type_names |->
         IF "doc_type_names" \in patch.given THEN patch.doc_type_names
         ELSE content.doc_type_names]

\* update_draft without the status test
update_draft_AnyStatus(store, pack_id, version, patch) ==
    LET key == <<pack_id, version>>
    IN  IF key \notin DOMAIN store THEN Raised(store, "not found")
        ELSE IF "doc_type_names" \in patch.given /\ patch.doc_type_names = <<>>
        THEN Raised(store, "doc_type_names cannot be empty")
        ELSE Committed(Put(store, key,
                           Record(store[key].status,
                                  Patched(store[key].content, patch))))

update_draft(store, pack_id, version, patch) ==
    LET key == <<pack_id, version>>
    IN  IF key \notin DOMAIN store THEN Raised(store, "not found")
        ELSE IF store[key].status # "draft"
        THEN Raised(store, "Only drafts can be updated")
        \* raised after schema_version was assigned, before the commit
        ELSE IF "doc_type_names" \in patch.given /\ patch.doc_type_names = <<>>
        THEN Raised(store, "doc_type_names cannot be empty")
        ELSE Committed(Put(store, key,
                           Record("draft", Patched(store[key].content, patch))))

\* tools.update_rulepack_yaml: after the two tests it imports
\* _parse_yaml_to_update and _apply_update_to_record from yaml_importer, which
\* defines neither; the ImportError is caught, rolled back and re-raised
update_rulepack_yaml(store, pack_id, version, yaml_content) ==
    LET key == <<pack_id, version>>
    IN  IF key \notin DOMAIN store THEN Raised(store, "not found")
        ELSE IF store[key].status # "draft"
        THEN Raised(store, "Only draft rule packs can be edited")
        ELSE Raised(store, "cannot import name")

\* the rows the statement UPDATE ... WHERE id = pack_id AND status = 'active'
\* matches in the table it reads
ActiveKeys(store, pack_id) ==
    {k \in DOMAIN store : k[1] = pack_id /\ store[k].status = "active"}

\* the table after the rows `keys` are set to status
WithStatus(store, keys, status) ==
    [k \in DOMAIN store |->
        IF k \in keys THEN Record(status, store[k].content) ELSE store[k]]

\* publish_pack that promotes without deprecating the prior active versions
publish_pack_KeepsActive(store, pack_id, version) ==
    LET key == <<pack_id, version>>
    IN  IF key \notin DOMAIN store THEN Raised(store, "not found")
        ELSE IF store[key].status # "draft"
        THEN Raised(store, "Only drafts can be published")
        ELSE Committed(WithStatus(store, {key}, "active"))

publish_pack(store, pack_id, version) ==
    LET key == <<pack_id, version>>
    IN  IF key \notin DOMAIN store THEN Raised(store, "not found")
        ELSE IF store[key].status # "draft"
        THEN Raised(store, "Only drafts can be published")
        ELSE Committed(WithStatus(
                 WithStatus(store, ActiveKeys(store, pack_id), "deprecated"),
                 {key}, "active"))

deprecate_pack(store, pack_id, version) ==
    LET key == <<pack_id, version>>
    IN  IF key \notin DOMAIN store THEN Raised(store, "not found")
        ELSE Committed(WithStatus(store, {key}, "deprecated"))

delete_rulepack(store, pack_id, version, force) ==
    LET key == <<pack_id, version>>
    IN  IF key \notin DOMAIN store THEN Raised(store, "not found")
        ELSE IF store[key].status # "draft" /\ ~force
        THEN Raised(store, "Cannot delete without force=True")
        ELSE Committed(Remove(store, key))

\* the record of a finished call
FinishedCall(op, out) == [op |-> op, error |-> out.error]

\* an empty table, no call made yet
InitPacks ==
    /\ rule_packs = <<>>
    /\ pack_call = <<>>
    /\ sessions = <<>>
    /\ IdleEval /\ IdleRisk /\ IdleMap /\ IdleReport /\ IdleClassify

Finish(op, out) ==
    /\ rule_packs' = out.store
    /\ pack_call' = FinishedCall(op, out)
    /\ UNCHANGED <<sessions, evalVars, riskVars, mapVars, repVars, clsVars>>

CreateDraft ==
    \E payload \in RulePackCreate :
        /\ _next_version_for_id(rule_packs, payload.id) <= MaxVersion
        /\ Cardinality(DOMAIN rule_packs) < MaxRows
        /\ \E out \in {create_draft(rule_packs, payload)} :
               Finish("create_draft", out)

UpdateDraft ==
    \E key \in PackKeys, patch \in RulePackUpdate :
        \E out \in {update_draft(rule_packs, key[1], key[2], patch)} :
            Finish("update_draft", out)

UpdateRulepackYaml ==
    \E key \in PackKeys, yaml_content \in PackContents :
        \E out \in {update_rulepack_yaml(rule_packs, key[1], key[2],
                                         yaml_content)} :
            Finish("update_rulepack_yaml", out)

PublishPack ==
    \E key \in PackKeys :
        \E out \in {publish_pack(rule_packs, key[1], key[2])} :
            Finish("publish_pack", out)

DeprecatePack ==
    \E key \in PackKeys :
        \E out \in {deprecate_pack(rule_packs, key[1], key[2])} :
            Finish("deprecate_pack", out)

DeleteRulepack ==
    \E key \in PackKeys, force \in BOOLEAN :
        \E out \in {delete_rulepack(rule_packs, key[1], key[2], force)} :
            Finish("delete_rulepack", out)

NextPacks ==
    \/ CreateDraft
    \/ UpdateDraft
    \/ UpdateRulepackYaml
    \/ PublishPack
    \/ DeprecatePack
    \/ DeleteRulepack

SpecPacks == InitPacks /\ [][NextPacks]_vars

(***************************************************************************)
(* Two publish_pack calls in two database sessions.  models_rulepack.py    *)
(* declares its columns as postgresql JSONB and no engine sets an isolation *)
(* level, so the sessions run under PostgreSQL's READ COMMITTED: a         *)
(* statement reads the rows committed when it starts, and an UPDATE waits  *)
(* for a row that another open transaction has updated.                    *)
(***************************************************************************)
SessionIds == {"s1", "s2"}
RacePackId == "pa"
RaceContent == [schema_version |-> "1.0", doc_type_names |-> <<"ta">>]
Statuses == {"draft", "active", "deprecated"}

\* the tables that sequential calls leave for one id: versions 1..n, at most
\* one of them active
RaceStores ==
    UNION { { st \in [{RacePackId} \X (1..n) ->
                         {Record(s, RaceContent) : s \in Statuses}] :
                Cardinality(ActiveKeys(st, RacePackId)) <= 1 } :
            n \in 0..MaxVersion }

\* a session about to run publish_pack(db, pack_id, version)
Session(version) ==
    [pc |-> "called", pack_id |-> RacePackId, version |-> version,
     matched |-> {}, updated |-> {}]

\* two calls for two different versions of the same id
InitRace ==
    /\ rule_packs \in RaceStores
    /\ pack_call = <<>>
    /\ \E v1 \in 1..MaxVersion, v2 \in 1..MaxVersion :
           /\ v1 # v2
           /\ sessions = [s \in SessionIds |->
                             Session(IF s = "s1" THEN v1 ELSE v2)]
    /\ IdleEval /\ IdleRisk /\ IdleMap /\ IdleReport /\ IdleClassify

\* the rows on which another open transaction holds a row lock
LockedByOthers(s) ==
    UNION {sessions[t].updated :
               t \in {t \in SessionIds : t # s /\ sessions[t].pc = "updated"}}

\* rec = db.get(...) and the two tests on it
SessionGet(s) ==
    /\ sessions[s].pc = "called"
    /\ LET key == <<sessions[s].pack_id, sessions[s].version>>
       IN  sessions' = [sessions EXCEPT ![s].pc =
               IF key \notin DOMAIN rule_packs THEN "raised"
               ELSE IF rule_packs[key].status # "draft" THEN "raised"
               ELSE "read"]
    /\ UNCHANGED <<rule_packs, pack_call,
                   evalVars, riskVars, mapVars, repVars, clsVars>>

\* db.query(...).filter(id == pack_id, status == "active").update(...)
\* starts: the rows it matches are the active rows committed at that moment
SessionUpdateBegin(s) ==
    /\ sessions[s].pc = "read"
    /\ sessions' = [sessions EXCEPT
           ![s].pc = "updating",
           ![s].matched = ActiveKeys(rule_packs, sessions[s].pack_id)]
    /\ UNCHANGED <<rule_packs, pack_call,
                   evalVars, riskVars, mapVars, repVars, clsVars>>

\* the statement ends: it has waited for the matched rows that another
\* transaction had locked, and updates those that are still active
SessionUpdateEnd(s) ==
    /\ sessions[s].pc = "updating"
    /\ sessions[s].matched \cap LockedByOthers(s) = {}
    /\ sessions' = [sessions EXCEPT
           ![s].pc = "updated",
           ![s].updated = sessions[s].matched
                          \cap ActiveKeys(rule_packs, sessions[s].pack_id)]
    /\ UNCHANGED <<rule_packs, pack_call,
                   evalVars, riskVars, mapVars, repVars, clsVars>>

\* rec.status = "active"; db.commit(): the rows the session updated and its
\* own row reach the table
SessionCommit(s) ==
    /\ sessions[s].pc = "updated"
    /\ rule_packs' =
           WithStatus(WithStatus(rule_packs, sessions[s].updated, "deprecated"),
                      {<<sessions[s].pack_id, sessions[s].version>>}, "active")
    /\ sessions' = [sessions EXCEPT ![s].pc = "committed"]
    /\ UNCHANGED <<pack_call, evalVars, riskVars, mapVars, repVars, clsVars>>

NextRace ==
    \/ \E s \in SessionIds : SessionGet(s)
    \/ \E s \in SessionIds : SessionUpdateBegin(s)
    \/ \E s \in SessionIds : SessionUpdateEnd(s)
    \/ \E s \in SessionIds : SessionCommit(s)

SpecRace == InitRace /\ [][NextRace]_vars

(***************************************************************************)
(* Properties of the classifier                                            *)
(***************************************************************************)
DeclarationIndex(pack_id) ==
    CHOOSE i \in DOMAIN cls_packs : cls_packs[i].pack_id = pack_id

\* C19: on every path of classify_document the returned candidates are in
\* non-increasing score order, and candidates with equal scores appear in
\* the order in which their profiles were declared.
C19_CandidatesOrdered ==
    cls_pc = "returned" =>
        \A i, j \in DOMAIN cls_result.candidates :
            i < j =>
                /\ cls_result.candidates[i].score >= cls_result.candidates[j].score
                /\ cls_result.candidates[i].score = cls_result.candidates[j].score
                   => DeclarationIndex(cls_result.candidates[i].pack_id)
                      <= DeclarationIndex(cls_result.candidates[j].pack_id)

\* the score score_document_heuristic gave a pack, 0 when it is no candidate
ScoreOf(pack_id) ==
    IF \E i \in DOMAIN cls_scored : cls_scored[i].pack_id = pack_id
    THEN cls_scored[CHOOSE i \in DOMAIN cls_scored :
                        cls_scored[i].pack_id = pack_id].score
    ELSE 0

AliasInHead ==
    CountIn(SubSeq(cls_text, 1, PyMin(Len(cls_text), HEAD_CHARS \div PASSAGE_CHARS)),
            ALIAS) > 0

\* C23: of two profiles that are identical except that one's alias list
\* also has a phrase that occurs in the head of the text, the one with the
\* alias gets the strictly higher score, whatever the other matches, the
\* length bonus and the sizes of the alias lists.
C23_AliasRanksHigher ==
    (cls_pc = "scored" /\ AliasInHead) => ScoreOf("aliased") > ScoreOf("plain")

\* the top heuristic score of the document, 0 when nothing is scored
TopHeuristicScore ==
    LET candidates == score_document_heuristic(cls_text, cls_packs)
    IN IF cls_packs = <<>> \/ candidates = <<>> THEN 0 ELSE candidates[1].score

HasHeuristicCandidates ==
    cls_packs # <<>> /\ score_document_heuristic(cls_text, cls_packs) # <<>>

\* C21: the fallback classifier is called only when the heuristic confidence
\* is below the threshold: never when the top heuristic score divided by 10
\* is at or above the configured threshold, when the fallback is disabled,
\* or when there are no profiles or no heuristic candidates; and at most
\* once per document.
C21_FallbackOnlyBelowThreshold ==
    cls_pc = "returned" =>
        /\ cls_llm_calls <= 1
        /\ cls_llm_calls > 0 =>
              /\ cls_settings.use_llm_fallback
              /\ HasHeuristicCandidates
              /\ TopHeuristicScore < cls_settings.confidence_threshold

\* the fallback classifier was called for a document with a title match
\* whose score stays below the threshold
C21_Witness ==
    /\ cls_pc = "returned"
    /\ cls_llm_calls = 1
    /\ TopHeuristicScore >= TITLE_WEIGHT

FallbackFailed ==
    \/ cls_answer.kind # "json"
    \/ cls_answer.pack_id \notin PackIds(cls_packs)
    \/ cls_answer.confidence <= LLM_MIN_CONFIDENCE

FallbackDisabled ==
    [use_llm_fallback |-> FALSE,
     confidence_threshold |-> cls_settings.confidence_threshold]

\* C22: the fallback classifier is fail-soft: when it raises, returns
\* nothing, returns a malformed response, names a pack that is no supplied
\* profile, or reports a confidence of 0.3 or less, classify_document returns
\* the selection, candidates and reason it returns with the fallback
\* disabled.
C22_FallbackFailSoft ==
    (cls_pc = "returned" /\ FallbackFailed) =>
        cls_result = Returned(classify_document(FallbackDisabled, cls_text,
                                                cls_packs, cls_answer))

\* the fallback classifier was called and answered a supplied profile with
\* a confidence of exactly 0.3
C22_Witness ==
    /\ cls_pc = "returned"
    /\ cls_llm_calls = 1
    /\ cls_answer.kind = "json"
    /\ cls_answer.pack_id \in PackIds(cls_packs)
    /\ cls_answer.confidence = LLM_MIN_CONFIDENCE
    /\ cls_result.reason[1] = "heuristic_confident"

\* C20: classify_document selects the pack of the first returned candidate;
\* with no candidate and some profile it selects the first profile and the
\* reason says so; the selected id is one of the supplied ids, it is null
\* only when no profile is supplied, and the reason is never empty.
C20_SelectionAndReason ==
    cls_pc = "returned" =>
        /\ cls_result.candidates # <<>>
           => cls_result.selected = cls_result.candidates[1].pack_id
        /\ (cls_result.candidates = <<>> /\ cls_packs # <<>>)
           => /\ cls_result.selected = cls_packs[1].pack_id
              /\ cls_result.reason = <<"no_heuristic_matches_fallback_to_default">>
        /\ cls_result.selected \in PackIds(cls_packs) \cup {NoneS}
        /\ cls_result.selected = NoneS => cls_packs = <<>>
        /\ cls_packs # <<>> => cls_result.selected \in PackIds(cls_packs)
        /\ cls_result.reason # <<>>

\* the fallback classifier's candidate went to the head of the list and
\* replaced the top heuristic candidate's pack as the selection
C20_Witness ==
    /\ cls_pc = "returned"
    /\ Len(cls_result.candidates) = Len(cls_packs) + 1
    /\ cls_result.reason[1] = "llm_fallback_triggered"
    /\ cls_result.selected = cls_result.candidates[1].pack_id
    /\ cls_result.selected # cls_result.candidates[2].pack_id

\* the findings of the rules: all but the status finding of the explanation
\* step
RuleFindings(fs) ==
    SelectSeq(fs, LAMBDA f : f.rule_id # "llm_explanations_status")

\* C29: the verdict passed_all of the report is the conjunction of the rule
\* findings' passed flags, whatever the explanation step met (switched off,
\* answers, error answers, provider not loaded)
C29_VerdictFromRuleFindings ==
    rp_pc \in {"assembled", "done", "raised"}
    => report_v1.passed_all =
           (\A k \in 1..Len(RuleFindings(report_v1.findings)) :
                RuleFindings(report_v1.findings)[k].passed)

(***************************************************************************)
(* Properties of the rule-pack lifecycle                                    *)
(***************************************************************************)
Published(store, key) ==
    key \in DOMAIN store /\ store[key].status \in {"active", "deprecated"}

\* the call fails and commits nothing
Refused(store, out) == out.error # "none" /\ out.store = store

\* update_draft, update_rulepack_yaml and publish_pack all refuse the version
RefusedByAll(store, key) ==
    /\ \A patch \in RulePackUpdate :
           Refused(store, update_draft(store, key[1], key[2], patch))
    /\ \A yaml_content \in PackContents :
           Refused(store, update_rulepack_yaml(store, key[1], key[2],
                                               yaml_content))
    /\ Refused(store, publish_pack(store, key[1], key[2]))

AtMostOneActive(store) ==
    \A id \in RulePackIds : Cardinality(ActiveKeys(store, id)) <= 1

\* C27: every pack id has at most one active version before and after every
\* call, and a publish_pack that succeeds turns one draft into the only
\* active version of its id and every version of that id that was active
\* into a deprecated one
C27_OneActivePerId ==
    [][/\ AtMostOneActive(rule_packs)
       /\ AtMostOneActive(rule_packs')
       /\ (pack_call'.op = "publish_pack" /\ pack_call'.error = "none")
          => \E key \in DOMAIN rule_packs :
                 /\ rule_packs[key].status = "draft"
                 /\ ActiveKeys(rule_packs', key[1]) = {key}
                 /\ \A k \in ActiveKeys(rule_packs, key[1]) :
                        rule_packs'[k].status = "deprecated"]_vars

\* publish_pack has just succeeded for an id that had an earlier version,
\* which is now deprecated
C27_Witness ==
    /\ pack_call # <<>>
    /\ pack_call.op = "publish_pack"
    /\ pack_call.error = "none"
    /\ \E k1 \in DOMAIN rule_packs, k2 \in DOMAIN rule_packs :
           /\ k1[1] = k2[1] /\ k2[2] < k1[2]
           /\ rule_packs[k1].status = "active"
           /\ rule_packs[k2].status = "deprecated"

BothCommitted == \A s \in SessionIds : sessions[s].pc = "committed"

\* C28: after two concurrent publish_pack calls for two draft versions of one
\* pack id have both committed, the id has at most one active version
C28_OneActiveAfterRace ==
    (sessions # <<>> /\ BothCommitted)
    => Cardinality(ActiveKeys(rule_packs, RacePackId)) <= 1

(***************************************************************************)
(* Properties of the guard and the normalizer                               *)
(***************************************************************************)
\* the keywords by which the guard is said to recognise a monetary rule
StatedKeywords ==
    {"value", "cap", "damages", "penalty", "payment", "fee", "cost", "price", "amount"}

HasStatedKeyword(rule_id) ==
    \E rid \in {lower(rule_id)} : \E k \in StatedKeywords : PyIn(k, rid)

\* the windows the guard inspects, one per citation
GuardWindows(txt, f) ==
    [k \in 1..Len(f.citations) |-> CitationWindow(txt, f.citations[k], 40)]

AnyNumeric(windows) == \E k \in 1..Len(windows) : _NUMBERISH(windows[k])

\* looks_monetary: a currency signal and no share/unit signal
AnyMonetary(windows) ==
    \E k \in 1..Len(windows) : _CURRENCY_HINT(windows[k]) /\ ~_SHARE_UNIT(windows[k])

\* g is f flipped to passed with the guard note appended
GuardFlipped(f, g) ==
    /\ g.passed = TRUE
    /\ g.details = f.details \o <<GUARD_NOTE>>
    /\ g.rule_id = f.rule_id /\ g.citations = f.citations /\ g.tags = f.tags

GuardStep == rp_pc = "enhanced" /\ rp_pc' = "guarded"

\* C12: for every Finding whose rule_id contains one of "value", "cap",
\* "damages", "penalty", "payment", "fee", "cost", "price", "amount", the
\* guard leaves the Finding unchanged if no citation window contains a
\* digit, sets passed to True and appends a guard note to details if at
\* least one window contains a digit and no window looks monetary, and
\* leaves it unchanged otherwise.
C12_GuardOnMonetaryRules ==
    [][ GuardStep =>
          \A k \in 1..Len(findings) :
              HasStatedKeyword(findings[k].rule_id) =>
                  \E w \in {GuardWindows(doc.text, findings[k])} :
                      IF AnyNumeric(w) /\ ~AnyMonetary(w)
                      THEN GuardFlipped(findings[k], findings'[k])
                      ELSE findings'[k] = findings[k]
      ]_vars

\* C13: the guard is a no-op on every Finding whose rule_id contains none of
\* the keywords "value", "cap", "damages", "penalty", "payment", "fee",
\* "cost", "price", "amount": whatever its citations and the text around
\* them, passed, details, citations and tags come out the same.
C13_GuardNoOpOnOtherRules ==
    [][ GuardStep =>
          \A k \in 1..Len(findings) :
              ~HasStatedKeyword(findings[k].rule_id) => findings'[k] = findings[k]
      ]_vars

\* no citation window has a currency signal and none has a share/unit signal
SignalInsufficient(windows) ==
    \A k \in 1..Len(windows) : ~_CURRENCY_HINT(windows[k]) /\ ~_SHARE_UNIT(windows[k])

\* C14: when the lexical signal is insufficient to decide monetary versus
\* share context (no citation window of the Finding contains a currency
\* signal and none contains a share/unit signal), the guard leaves the
\* Finding unchanged: passed and details are not altered.
C14_GuardInconclusiveUnchanged ==
    [][ GuardStep =>
          \A k \in 1..Len(findings) :
              SignalInsufficient(GuardWindows(doc.text, findings[k])) =>
                  /\ findings'[k].passed = findings[k].passed
                  /\ findings'[k].details = findings[k].details
      ]_vars

\* the windows the normalizer inspects, one per citation
NormalizerWindows(txt, f) ==
    [k \in 1..Len(f.citations) |-> CitationWindow(txt, f.citations[k], 60)]

IsContractValueFinding(f) ==
    \E rid \in {lower(f.rule_id)} : PyIn("contract_value_within_limit", rid)

\* some note of the details mentions shares/units
MentionsSharesUnits(details) ==
    \E i \in 1..Len(details) : PyIn("shares/units", details[i])

AllShareContext(windows) ==
    \A k \in 1..Len(windows) :
        _SHARE_UNIT(windows[k]) /\ ~(_CURRENCY_HINT(windows[k]) /\ ~_SHARE_UNIT(windows[k]))

\* C15: for a contract-value Finding with at least one citation, after the
\* guard and then the normalizer: passed is True and a note mentions
\* shares/units when every citation window has share/unit context and none
\* is monetary, whatever passed was before and whether or not a maximum is
\* configured; otherwise, when a maximum contract value is configured and
\* any window is monetary, passed is true exactly when details does not
\* state that the amount exceeds the limit.
C15_ContractValueReconciled ==
    rp_pc = "normalized" =>
        \A k \in 1..Len(findings) :
            (IsContractValueFinding(findings[k]) /\ findings[k].citations # <<>>) =>
                \E w \in {NormalizerWindows(doc.text, findings[k])} :
                    IF AllShareContext(w)
                    THEN /\ findings[k].passed = TRUE
                         /\ MentionsSharesUnits(findings[k].details)
                    ELSE (doc.rules.contract.max_contract_value # NoneInt /\ AnyMonetary(w))
                            => (findings[k].passed
                                  <=> ~Mentions(findings[k].details, ExceedPhrases))

\* a contract-value finding that came in failing (it carries the severity
\* tag) with two citations, both among shares, far apart: it passes with
\* the equity note
C15_Witness ==
    /\ rp_pc = "normalized"
    /\ Len(doc.text) > GapLen
    /\ Len(findings) = 1
    /\ IsContractValueFinding(findings[1])
    /\ Len(findings[1].citations) = 2
    /\ AllShareContext(NormalizerWindows(doc.text, findings[1]))
    /\ findings[1].tags # <<>>
    /\ findings[1].passed
    /\ findings[1].details = <<EQUITY_NOTE>>

IsJurisdictionFinding(f) ==
    \E rid \in {lower(f.rule_id)} : PyIn("jurisdiction_present_and_allowed", rid)

\* the details contain the phrase "not in allowed list", in any case
SaysNotInAllowedList(details) ==
    \E i \in 1..Len(details) :
        \E d \in {lower(details[i])} : PyIn("not in allowed list", d)

NormalizeStep == rp_pc = "guarded" /\ rp_pc' = "normalized"

\* C16: after the normalizer every jurisdiction Finding whose details
\* contains the phrase "not in allowed list" has passed = False, whatever
\* passed was before, with details, citations and tags unchanged; a
\* jurisdiction Finding without the phrase is returned unchanged.
C16_JurisdictionForcedFail ==
    [][ NormalizeStep =>
          \A k \in 1..Len(findings) :
              IsJurisdictionFinding(findings[k]) =>
                  IF SaysNotInAllowedList(findings[k].details)
                  THEN findings'[k] = [findings[k] EXCEPT !.passed = FALSE]
                  ELSE findings'[k] = findings[k]
      ]_vars

\* a jurisdiction finding that came in passing (no severity tag), says "Not
\* in allowed list." and fails after the normalizer
C16_Witness ==
    /\ rp_pc = "normalized"
    /\ Len(findings) = 1
    /\ IsJurisdictionFinding(findings[1])
    /\ SaysNotInAllowedList(findings[1].details)
    /\ findings[1].tags = <<>>
    /\ findings[1].citations # <<>>
    /\ ~findings[1].passed

\* the text states its governing law ("jurisdiction Texas" or "governed by
\* the laws of Texas") and Texas is not in the allowed list
StatesDisallowedLaw(d) ==
    /\ "a" \notin d.rules.jurisdiction.allowed_countries
    /\ \E i \in 1..(Len(d.text) - 1) : d.text[i] \in {"g", "b"} /\ d.text[i + 1] = "a"

\* C17: for a document whose text states its governing law as a
\* jurisdiction outside the allowed list, the final jurisdiction Finding of
\* the pipeline has passed = False and its details contains both the
\* jurisdiction name and the phrase "not in allowed list".
C17_DisallowedLawReported ==
    (report_v1 # <<>> /\ StatesDisallowedLaw(doc)) =>
        \E k \in 1..Len(report_v1.findings) :
            /\ IsJurisdictionFinding(report_v1.findings[k])
            /\ ~report_v1.findings[k].passed
            /\ \E i \in 1..Len(report_v1.findings[k].details) :
                   report_v1.findings[k].details[i] = "a"
            /\ SaysNotInAllowedList(report_v1.findings[k].details)

\* after is before rewritten: one Finding per Finding, in the same order,
\* each with the rule_id and the citations it had
SameIdentity(before, after) ==
    /\ Len(after) = Len(before)
    /\ \A k \in 1..Len(before) :
          /\ after[k].rule_id = before[k].rule_id
          /\ after[k].citations = before[k].citations

\* C18: the guard, the normalizer and the explanation step rewrite Findings
\* without changing their identity: after each step the list has one
\* Finding per input Finding in the same order (plus only the appended
\* status finding of the explanation step), each with the same rule_id and
\* the same citations as before the step.
C18_RewritesKeepIdentity ==
    [][ /\ (GuardStep \/ NormalizeStep) => SameIdentity(findings, findings')
        /\ (rp_pc = "normalized" /\ rp_pc' = "explained") =>
              /\ Len(findings') = Len(findings) + 1
              /\ SameIdentity(findings, SubSeq(findings', 1, Len(findings)))
              /\ findings'[Len(findings')].rule_id = "llm_explanations_status"
      ]_vars

\* after the explanation step: the status finding is last, a finding with
\* citations got explanation tags, and a finding carries the guard note
C18_Witness ==
    /\ rp_pc = "explained"
    /\ Len(findings) >= 5
    /\ findings[Len(findings)].rule_id = "llm_explanations_status"
    /\ \E k \in 1..(Len(findings) - 1) :
          findings[k].citations # <<>> /\ findings[k].tags # <<>>
    /\ \E k \in 1..(Len(findings) - 1) :
          findings[k].citations # <<>> /\ Mentions(findings[k].details, {GUARD_NOTE})

(***************************************************************************)
(* Properties of the reports                                                *)
(***************************************************************************)
\* the citations of a list of findings, checks or rule results
CitationsOf(items) ==
    UNION { { items[k].citations[j] : j \in 1..Len(items[k].citations) } :
            k \in 1..Len(items) }

\* the citations of the v1 findings and of the v2 compliance checks and
\* rule results of the returned report
ReportCitations ==
    CitationsOf(report_v1.findings)
    \cup CitationsOf(report_v2.compliance_checks)
    \cup CitationsOf(report_v2.rulepack_rules)

\* the span a rule check matched: the quote is the text the check read from
\* max(0, char_start - pad) on, and every pad exceeds the documents' length
MatchedSpan(c) == PySlice(c.quote, c.char_start, c.char_end)

\* a span with its page breaks read as line breaks, as splitlines and join
\* leave them
BreaksAlike(span) ==
    [k \in 1..Len(span) |-> IF span[k] = PAGE_BREAK THEN NEWLINE ELSE span[k]]

\* C25: the char_start/char_end of every citation index into the text that
\* was passed to make_report: text[char_start:char_end] is the span the rule
\* check matched, also when the text has lines that the checks strip as
\* signature noise, or page breaks, before the match (a page break in the
\* span counts as the line break the checks read).
C25_OffsetsIndexReportText ==
    rp_pc \in {"evaluated", "enhanced", "guarded", "normalized", "explained",
               "assembled", "done"} =>
        \A c \in CitationsOf(findings) :
            BreaksAlike(PySlice(doc.text, c.char_start, c.char_end))
                = BreaksAlike(MatchedSpan(c))

CitationWellFormed(c) ==
    /\ c.char_start <= c.char_end
    /\ c.char_end <= Len(doc.text)
    /\ 0 <= c.confidence /\ c.confidence <= CONF_FULL
    /\ (c.page = NoneInt \/ c.line_start = NoneInt) => c.confidence < CONF_FULL

\* C9: in every report produced by make_report (the v1 findings and the v2
\* compliance checks and rule results built from them), every citation
\* satisfies char_start <= char_end <= len(text) and 0 <= confidence <= 1,
\* and every citation whose page or line_start is unresolved (null) has
\* confidence below 1.0.
C9_ReportCitationsWellFormed ==
    rp_pc = "done" => \A c \in ReportCitations : CitationWellFormed(c)

====
